---- MODULE Spec2Model ----
(***************************************************************************)
(* ElderFlow backend: billing-rate resolution, invoice generation and the  *)
(* payment ledger (routes/invoices.ts, routes/stripe.ts).                  *)
(*                                                                         *)
(* Number representation.  The program computes in IEEE doubles; the model *)
(* computes exactly, in integers:                                          *)
(*   - money is counted in units of 1/120 cent (MoneyScale units = 1 cent),*)
(*     so that a half-cent rate and the product (minutes/60)*rate of a     *)
(*     half-cent rate are both integers;                                   *)
(*   - a quantity (hours) is counted in 1/60 hour, i.e. in minutes, so the *)
(*     quantity 1 of a flat item is 60;                                    *)
(*   - activity start/end times are counted in half minutes;               *)
(*   - timestamps written by new Date() are the value of the clock `now`,  *)
(*     a logical clock that every recorded payment advances.              *)
(***************************************************************************)
EXTENDS Integers, Sequences, FiniteSets, TLC

NULL == "null"
\* a timestamp column that is null (timestamps are clock values >= 1)
NULL_TIME == 0

\* ------------------------------------------------------------------ bounds
MaxMinutes == 60
MaxMinDuration == 31

\* ------------------------------------------------------- number helpers
MoneyScale == 120
Cents(c) == c * MoneyScale
Dollars(d) == Cents(d * 100)
QuantityOne == 60

\* Math.round(num/den) for den > 0: the nearest integer, a tie going up
\* (towards +infinity), i.e. floor(num/den + 1/2).
MathRound(num, den) == (2 * num + den) \div (2 * den)

\* round2(n) = Math.round(n * 100) / 100, n in money units
round2(n) == MathRound(n, MoneyScale) * MoneyScale

\* ------------------------------------------------ JSON values of a rule
\* A field of billingRulesJson: absent (undefined), a number, or a string
\* that does not parse as a number.  n is 0 unless kind = "num".
JsUndef == [kind |-> "undef", n |-> 0]
JsStr == [kind |-> "str", n |-> 0]
JsNum(x) == [kind |-> "num", n |-> x]

\* Number(v) || <next>: Number(undefined) and Number("abc") are NaN, and NaN
\* and 0 are falsy; every other number is truthy.
NumberTruthy(v) == v.kind = "num" /\ v.n # 0
NumberOf(v) == v.n

NoRules == [hourlyRate |-> JsUndef, minDuration |-> JsUndef, rounding |-> "undef"]

DefaultHourlyRate == Dollars(150)

\* mutant: ?? in place of ||, a configured 0 counts as present
getBillingContext_Nullish(clientRules, orgRules) ==
  LET Present(v) == v.kind = "num"
  IN  [hourlyRate |->
          IF Present(clientRules.hourlyRate) THEN NumberOf(clientRules.hourlyRate)
          ELSE IF Present(orgRules.hourlyRate) THEN NumberOf(orgRules.hourlyRate)
          ELSE DefaultHourlyRate,
       minDuration |->
          IF Present(clientRules.minDuration) THEN NumberOf(clientRules.minDuration)
          ELSE IF Present(orgRules.minDuration) THEN NumberOf(orgRules.minDuration)
          ELSE 0,
       rounding |->
          IF clientRules.rounding = "6m" \/ clientRules.rounding = "15m"
          THEN clientRules.rounding
          ELSE IF orgRules.rounding = "6m" \/ orgRules.rounding = "15m"
          THEN orgRules.rounding
          ELSE "none"]

\* mutant: a client rounding of none is honoured and suppresses the org's
getBillingContext_ClientNoneWins(clientRules, orgRules) ==
  [hourlyRate |->
      IF NumberTruthy(clientRules.hourlyRate) THEN NumberOf(clientRules.hourlyRate)
      ELSE IF NumberTruthy(orgRules.hourlyRate) THEN NumberOf(orgRules.hourlyRate)
      ELSE DefaultHourlyRate,
   minDuration |->
      IF NumberTruthy(clientRules.minDuration) THEN NumberOf(clientRules.minDuration)
      ELSE IF NumberTruthy(orgRules.minDuration) THEN NumberOf(orgRules.minDuration)
      ELSE 0,
   rounding |->
      IF clientRules.rounding \in {"none", "6m", "15m"}
      THEN clientRules.rounding
      ELSE IF orgRules.rounding = "6m" \/ orgRules.rounding = "15m"
      THEN orgRules.rounding
      ELSE "none"]

getBillingContext(clientRules, orgRules) ==
  [hourlyRate |->
      IF NumberTruthy(clientRules.hourlyRate) THEN NumberOf(clientRules.hourlyRate)
      ELSE IF NumberTruthy(orgRules.hourlyRate) THEN NumberOf(orgRules.hourlyRate)
      ELSE DefaultHourlyRate,
   minDuration |->
      IF NumberTruthy(clientRules.minDuration) THEN NumberOf(clientRules.minDuration)
      ELSE IF NumberTruthy(orgRules.minDuration) THEN NumberOf(orgRules.minDuration)
      ELSE 0,
   rounding |->
      IF clientRules.rounding = "6m" \/ clientRules.rounding = "15m"
      THEN clientRules.rounding
      ELSE IF orgRules.rounding = "6m" \/ orgRules.rounding = "15m"
      THEN orgRules.rounding
      ELSE "none"]

\* mutant: Math.floor in place of Math.round
adjustMinutes_Truncating(minutes, minDuration, rounding) ==
  LET m == IF minDuration > 0 /\ minutes < minDuration THEN minDuration ELSE minutes
  IN  IF rounding = "6m" THEN (m \div 6) * 6
      ELSE IF rounding = "15m" THEN (m \div 15) * 15
      ELSE m

\* mutant: rounding first, the minimum-duration floor after it
adjustMinutes_RoundFirst(minutes, minDuration, rounding) ==
  LET r == IF rounding = "6m" THEN MathRound(minutes, 6) * 6
           ELSE IF rounding = "15m" THEN MathRound(minutes, 15) * 15
           ELSE minutes
  IN  IF minDuration > 0 /\ r < minDuration THEN minDuration ELSE r

adjustMinutes(minutes, minDuration, rounding) ==
  LET m == IF minDuration > 0 /\ minutes < minDuration THEN minDuration ELSE minutes
  IN  IF rounding = "6m" THEN MathRound(m, 6) * 6
      ELSE IF rounding = "15m" THEN MathRound(m, 15) * 15
      ELSE m

\* ------------------------------------------------------------------ state
VARIABLES
  adj,            \* a call of adjustMinutes: its arguments, its result, its position
  bc,             \* a call of getBillingContext: its arguments, its result, its position
  organizations,  \* Organization rows: orgId -> [billingRulesJson]
  clients,        \* Client rows: clientId -> [orgId, primaryCMId, billingRulesJson]
  serviceTypes,   \* ServiceType rows: id -> [orgId, name, rateType, rateAmount, isActive]
  activities,     \* Activity rows, a set of records
  invoices,       \* Invoice rows in creation order; the id is the position
  invoiceItems,   \* InvoiceItem rows, a set of records
  payments,       \* Payment rows in creation order
  now,            \* the clock read by new Date()
  res,            \* the response to the last request
  inflight        \* the handlers that are between two awaits: slot -> position and locals

dbvars == <<organizations, clients, serviceTypes, activities, invoices, invoiceItems,
            payments, now, res>>
vars == <<adj, bc, organizations, clients, serviceTypes, activities, invoices,
          invoiceItems, payments, now, res, inflight>>

Roundings == {"none", "6m", "15m"}

AdjIdle == [minutes |-> 0, minDuration |-> 0, rounding |-> "none", ret |-> 0, pc |-> "idle"]
BcIdle == [clientRules |-> NoRules, orgRules |-> NoRules,
           ret |-> getBillingContext(NoRules, NoRules), pc |-> "idle"]

\* the slots in which a handler can be suspended at an await
MaxInFlight == 2
Slots == 1..MaxInFlight
IdleRequest ==
  [op |-> "none", pc |-> "idle", orgId |-> NULL, target |-> NULL, periodStart |-> 0,
   periodEnd |-> 0, items |-> {}, total |-> 0, invoiceId |-> 0, failed |-> FALSE,
   amount |-> 0, method |-> "", reference |-> NULL, status |-> "", paidAt |-> NULL_TIME,
   paidBefore |-> 0]
NoneInFlight == [s \in Slots |-> IdleRequest]

\* ------------------------------------------------------- callers and rows
OrgIds == {"o1", "o2"}
ClientIds == {"c1", "c2"}
SvcIds == {"sFlat", "sHourly", "sWeekly"}

\* req.user as attached by the auth middleware
Users ==
  { [userId |-> "u1", orgId |-> "o1", role |-> "admin"],
    [userId |-> "u2", orgId |-> "o1", role |-> "care_manager"],
    [userId |-> "u3", orgId |-> "o2", role |-> "admin"] }

\* mutant: the middleware lets every authenticated caller through
requireAdmin_AnyRole(user) == TRUE

\* requireAdmin: next() only for req.user.role === "admin", else 403
requireAdmin(user) == user.role = "admin"

\* an activity logged by the care manager of its organization (u2 in o1; the
\* care manager u4 of o2 sends no request)
Activity(id, org, client, start, end, dur, svc) ==
  [id |-> id, orgId |-> org, clientId |-> client, isBillable |-> TRUE,
   startTime |-> start, endTime |-> end, duration |-> dur, serviceTypeId |-> svc,
   cmId |-> IF org = "o1" THEN "u2" ELSE "u4"]

ServiceType(org, name, rateType, rateAmount) ==
  [orgId |-> org, name |-> name, rateType |-> rateType, rateAmount |-> rateAmount,
   isActive |-> TRUE]

\* a response: the status code, the error, and of the body the id of the
\* invoice written, the balance and the ids of the invoices returned
NoResponse ==
  [op |-> "none", code |-> 0, error |-> "", invoiceId |-> 0, balanceRemaining |-> 0,
   returned |-> {}]
Response(op, code, error) ==
  [op |-> op, code |-> code, error |-> error, invoiceId |-> 0, balanceRemaining |-> 0,
   returned |-> {}]

\* The rows of the demo organization: two clients, one activity each, no
\* billing rules that getBillingContext reads.
SeedServiceTypes ==
  [s \in SvcIds |->
     IF s = "sFlat" THEN ServiceType("o1", "Home Visit", "flat", Dollars(50))
     ELSE IF s = "sHourly" THEN ServiceType("o1", "Phone Support", "hourly", Dollars(120))
     ELSE ServiceType("o1", "Retainer", "weekly", Dollars(90))]

SeedClients ==
  [c \in ClientIds |->
     IF c = "c1" THEN [orgId |-> "o1", primaryCMId |-> "u2", billingRulesJson |-> NoRules]
     ELSE [orgId |-> "o2", primaryCMId |-> NULL, billingRulesJson |-> NoRules]]

SeedActivities ==
  { Activity("a1", "o1", "c1", 0, 160, 80, NULL),
    Activity("a2", "o2", "c2", 0, 100, 50, NULL) }

InitDb ==
  /\ organizations = [o \in OrgIds |-> [billingRulesJson |-> NoRules]]
  /\ clients = SeedClients
  /\ serviceTypes = SeedServiceTypes
  /\ activities = SeedActivities
  /\ invoices = <<>>
  /\ invoiceItems = {}
  /\ payments = <<>>
  /\ now = 1
  /\ res = NoResponse

\* ------------------------------------------- specification: adjustMinutes
InitAdjust ==
  /\ \E m \in 0..MaxMinutes, d \in 0..MaxMinDuration, r \in Roundings :
        adj = [minutes |-> m, minDuration |-> d, rounding |-> r, ret |-> 0, pc |-> "call"]
  /\ bc = BcIdle
  /\ inflight = NoneInFlight
  /\ InitDb

CallAdjustMinutes ==
  /\ adj.pc = "call"
  /\ adj' = [adj EXCEPT !.ret = adjustMinutes(adj.minutes, adj.minDuration, adj.rounding),
                        !.pc = "done"]
  /\ UNCHANGED <<bc, inflight, dbvars>>

NextAdjust == CallAdjustMinutes

SpecAdjust == InitAdjust /\ [][NextAdjust]_vars

\* -------------------------------------- specification: getBillingContext
RuleRoundings == {"undef", "none", "6m", "15m", "5m"}
ClientRates == {JsUndef, JsStr, JsNum(0), JsNum(Dollars(175))}
OrgRates == {JsUndef, JsStr, JsNum(0), JsNum(Dollars(90)), JsNum(Dollars(150))}
ClientMinDurations == {JsUndef, JsStr, JsNum(0), JsNum(10)}
OrgMinDurations == {JsUndef, JsStr, JsNum(0), JsNum(30)}

ClientRuleSets ==
  [hourlyRate : ClientRates, minDuration : ClientMinDurations, rounding : RuleRoundings]
OrgRuleSets ==
  [hourlyRate : OrgRates, minDuration : OrgMinDurations, rounding : RuleRoundings]

InitContext ==
  /\ adj = AdjIdle
  /\ inflight = NoneInFlight
  /\ \E c \in ClientRuleSets, o \in OrgRuleSets :
        bc = [clientRules |-> c, orgRules |-> o,
              ret |-> getBillingContext(NoRules, NoRules), pc |-> "call"]
  /\ InitDb

CallGetBillingContext ==
  /\ bc.pc = "call"
  /\ bc' = [bc EXCEPT !.ret = getBillingContext(bc.clientRules, bc.orgRules),
                      !.pc = "done"]
  /\ UNCHANGED <<adj, inflight, dbvars>>

NextContext == CallGetBillingContext

SpecContext == InitContext /\ [][NextContext]_vars

\* ---------------------------------------------- POST /api/invoices/generate
RECURSIVE SumAmounts(_)
SumAmounts(S) ==
  IF S = {} THEN 0
  ELSE LET x == CHOOSE y \in S : TRUE IN x.amount + SumAmounts(S \ {x})

\* mutant: the duration always derived from the times
DurationMinutes_Derived(activity) ==
  LET d == MathRound(activity.endTime - activity.startTime, 2)
  IN  IF d > 0 THEN d ELSE 0

\* activity.duration || Math.max(0, Math.round((end - start) / 60000)),
\* start and end in half minutes
DurationMinutes(activity) ==
  IF activity.duration # 0 THEN activity.duration
  ELSE LET d == MathRound(activity.endTime - activity.startTime, 2)
       IN  IF d > 0 THEN d ELSE 0

\* quantity (in 1/60) * unitPrice
Product(quantity, unitPrice) == (quantity * unitPrice) \div QuantityOne

\* mutant: a flat service type billed by the hour, on the raw duration
FlatItem_PerHour(activity, svc) ==
  [activityId |-> activity.id, description |-> svc.name,
   quantity |-> DurationMinutes(activity), unitPrice |-> svc.rateAmount,
   amount |-> round2(Product(DurationMinutes(activity), svc.rateAmount))]

\* svc.rateType === "flat": one unit at the flat rate
FlatItem(activity, svc) ==
  [activityId |-> activity.id, description |-> svc.name,
   quantity |-> QuantityOne, unitPrice |-> svc.rateAmount,
   amount |-> round2(svc.rateAmount)]

\* mutant: the context's hourlyRate in place of the service type's rateAmount
HourlyServiceItem_ContextRate(activity, svc, ctx) ==
  LET adjustedMinutes ==
        adjustMinutes(DurationMinutes(activity), ctx.minDuration, ctx.rounding)
  IN  [activityId |-> activity.id, description |-> svc.name,
       quantity |-> adjustedMinutes, unitPrice |-> ctx.hourlyRate,
       amount |-> round2(Product(adjustedMinutes, ctx.hourlyRate))]

\* any other rateType: hourly service type
HourlyServiceItem(activity, svc, ctx) ==
  LET adjustedMinutes ==
        adjustMinutes(DurationMinutes(activity), ctx.minDuration, ctx.rounding)
  IN  [activityId |-> activity.id, description |-> svc.name,
       quantity |-> adjustedMinutes, unitPrice |-> svc.rateAmount,
       amount |-> round2(Product(adjustedMinutes, svc.rateAmount))]

\* mutant: the raw duration, without adjustMinutes
FallbackItem_NoAdjust(activity, ctx) ==
  [activityId |-> activity.id, description |-> "Care Management Services",
   quantity |-> DurationMinutes(activity), unitPrice |-> ctx.hourlyRate,
   amount |-> round2(Product(DurationMinutes(activity), ctx.hourlyRate))]

\* no service type: hourlyRate from the rules
FallbackItem(activity, ctx) ==
  LET adjustedMinutes ==
        adjustMinutes(DurationMinutes(activity), ctx.minDuration, ctx.rounding)
  IN  [activityId |-> activity.id, description |-> "Care Management Services",
       quantity |-> adjustedMinutes, unitPrice |-> ctx.hourlyRate,
       amount |-> round2(Product(adjustedMinutes, ctx.hourlyRate))]

\* one pass of the loop over the activities: the item built for an activity
PriceActivity(activity, ctx) ==
  IF activity.serviceTypeId # NULL
  THEN LET svc == serviceTypes[activity.serviceTypeId]
       IN  IF svc.rateType = "flat"
           THEN FlatItem(activity, svc)
           ELSE HourlyServiceItem(activity, svc, ctx)
  ELSE FallbackItem(activity, ctx)

\* prisma.activity.findMany of generate
BillableActivities(orgId, clientId, start, end) ==
  { a \in activities :
      /\ a.orgId = orgId
      /\ a.clientId = clientId
      /\ a.isBillable
      /\ a.startTime >= start
      /\ a.endTime <= end }

\* mutant: the loop without `if (amount <= 0) continue`
BuildItems_KeepAll(acts, ctx) ==
  { PriceActivity(a, ctx) : a \in acts }

\* the items kept by the loop: those with amount > 0
BuildItems(acts, ctx) ==
  { it \in { PriceActivity(a, ctx) : a \in acts } : it.amount > 0 }

RECURSIVE SumProducts(_)
SumProducts(S) ==
  IF S = {} THEN 0
  ELSE LET x == CHOOSE y \in S : TRUE
       IN  Product(x.quantity, x.unitPrice) + SumProducts(S \ {x})

\* mutant: the unrounded products summed, and the sum rounded once
TotalAmount_RoundedOnce(items) == round2(SumProducts(items))

\* round2(items.reduce((sum, i) => sum + i.amount, 0))
TotalAmount(items) == round2(SumAmounts(items))

Respond(r) ==
  /\ res' = r
  /\ UNCHANGED <<organizations, clients, serviceTypes, activities, invoices,
                 invoiceItems, payments, now>>

\* prisma.invoiceItem.create for each item kept
InvoiceItemRows(id, items) ==
  { [invoiceId |-> id, activityId |-> it.activityId,
     description |-> it.description, quantity |-> it.quantity,
     unitPrice |-> it.unitPrice, amount |-> it.amount] : it \in items }

\* the error of generate when findMany returns no activity
NoBillableActivityError == "No billable activities found for this period"

\* mutant: the same message for both failures
NoInvoiceableActivityError_Same == "No billable activities found for this period"

\* the error of generate when the loop keeps no item
NoInvoiceableActivityError ==
  "No billable activities produced any invoiceable amounts with the current rules."

Generate(user, clientId, period) ==
  /\ UNCHANGED <<adj, bc, inflight>>
  /\ IF ~requireAdmin(user)
     THEN Respond(Response("generate", 403, "Admin role required"))
     ELSE IF clientId = NULL
     THEN Respond(Response("generate", 400, "clientId, periodStart, periodEnd are required"))
     ELSE IF clientId \notin DOMAIN clients \/ clients[clientId].orgId # user.orgId
     THEN Respond(Response("generate", 404, "Client not found"))
     ELSE
       LET orgRules == organizations[user.orgId].billingRulesJson
           clientRules == clients[clientId].billingRulesJson
           ctx == getBillingContext(clientRules, orgRules)
           acts == BillableActivities(user.orgId, clientId, period.start, period.end)
           items == BuildItems(acts, ctx)
           id == Len(invoices) + 1
       IN  IF acts = {}
           THEN Respond(Response("generate", 400, NoBillableActivityError))
           ELSE IF items = {}
           THEN Respond(Response("generate", 400, NoInvoiceableActivityError))
           ELSE
             /\ invoices' = Append(invoices,
                  [id |-> id, orgId |-> user.orgId, clientId |-> clientId,
                   periodStart |-> period.start, periodEnd |-> period.end,
                   status |-> "draft", totalAmount |-> TotalAmount(items),
                   currency |-> "USD", sentAt |-> NULL_TIME, paidAt |-> NULL_TIME])
             /\ invoiceItems' = invoiceItems \cup InvoiceItemRows(id, items)
             /\ res' = [Response("generate", 201, "") EXCEPT !.invoiceId = id]
             /\ UNCHANGED <<organizations, clients, serviceTypes, activities, payments, now>>

\* ------------------------------------------------------------ the ledger
\* Payment rows carry the columns the ledger reads, and method and reference.
\* [...invoice.payments, payment].filter(completed).reduce(sum + amount):
\* the completed payments of invoice id among the first k rows of ps
RECURSIVE SumCompleted(_, _, _)
SumCompleted(ps, id, k) ==
  IF k = 0 THEN 0
  ELSE SumCompleted(ps, id, k - 1) +
       (IF ps[k].invoiceId = id /\ ps[k].status = "completed" THEN ps[k].amount ELSE 0)

TotalPaid(ps, id) == SumCompleted(ps, id, Len(ps))

Payment(orgId, invoiceId, amount, method, reference) ==
  [orgId |-> orgId, invoiceId |-> invoiceId, status |-> "completed", amount |-> amount,
   method |-> method, reference |-> reference]

\* mutant: findFirst({ where: { id, orgId, status: { not: "paid" } } })
FindInvoice_Unpaid(id, orgId) ==
  IF id \in 1..Len(invoices) /\ invoices[id].orgId = orgId /\ invoices[id].status # "paid"
  THEN id ELSE 0

\* prisma.invoice.findFirst({ where: { id, orgId } })
FindInvoice(id, orgId) ==
  IF id \in 1..Len(invoices) /\ invoices[id].orgId = orgId THEN id ELSE 0

\* mutant: paidAt is stamped at every payment that covers the invoice
MarkPaidUpdate_Restamps(invoice, remaining) ==
  IF remaining <= 0
  THEN [invoice EXCEPT !.status = "paid", !.paidAt = now]
  ELSE invoice

\* mark-paid: the status and paidAt written back
MarkPaidUpdate(invoice, remaining) ==
  IF remaining <= 0
  THEN [invoice EXCEPT !.status = "paid",
                       !.paidAt = IF invoice.paidAt = NULL_TIME THEN now ELSE invoice.paidAt]
  ELSE invoice

\* mutant: the webhook path without the draft -> sent branch
StripeUpdate_KeepsDraft(invoice, remaining) ==
  IF remaining <= 0
  THEN [invoice EXCEPT !.status = "paid",
                       !.paidAt = IF invoice.paidAt = NULL_TIME THEN now ELSE invoice.paidAt]
  ELSE invoice

\* handleStripeInvoicePayment: the status and paidAt written back
StripeUpdate(invoice, remaining) ==
  IF remaining <= 0
  THEN [invoice EXCEPT !.status = "paid",
                       !.paidAt = IF invoice.paidAt = NULL_TIME THEN now ELSE invoice.paidAt]
  ELSE IF invoice.status = "draft"
  THEN [invoice EXCEPT !.status = "sent"]
  ELSE invoice

\* mutant: approve also clears the paid timestamp
ApproveUpdate_ClearsPaidAt(invoice) ==
  [invoice EXCEPT !.status = "sent", !.sentAt = now, !.paidAt = NULL_TIME]

\* approve: data: { status: "sent", sentAt: new Date() }
ApproveUpdate(invoice) ==
  [invoice EXCEPT !.status = "sent", !.sentAt = now]

\* POST /api/invoices/:id/approve
Approve(user, id) ==
  /\ UNCHANGED <<adj, bc, inflight>>
  /\ IF ~requireAdmin(user)
     THEN Respond(Response("approve", 403, "Admin role required"))
     ELSE IF FindInvoice(id, user.orgId) = 0
     THEN Respond(Response("approve", 404, "Invoice not found"))
     ELSE
       /\ invoices' = [invoices EXCEPT ![id] = ApproveUpdate(invoices[id])]
       /\ res' = [Response("approve", 200, "") EXCEPT !.invoiceId = id]
       /\ UNCHANGED <<organizations, clients, serviceTypes, activities, invoiceItems,
                      payments, now>>

\* mutant: the balance reported as computed, negative after overpayment
BalanceRemaining_Signed(remaining) == remaining

\* balanceRemaining: remaining > 0 ? remaining : 0
BalanceRemaining(remaining) == IF remaining > 0 THEN remaining ELSE 0

\* POST /api/invoices/:id/mark-paid; amount 0 stands for a missing amount,
\* method "" for a missing method
MarkPaid(user, id, amount, method, reference) ==
  /\ UNCHANGED <<adj, bc, inflight>>
  /\ IF ~requireAdmin(user)
     THEN Respond(Response("mark-paid", 403, "Admin role required"))
     ELSE IF amount <= 0
     THEN Respond(Response("mark-paid", 400, "Invalid payment amount"))
     ELSE IF method = ""
     THEN Respond(Response("mark-paid", 400, "Payment method required"))
     ELSE IF FindInvoice(id, user.orgId) = 0
     THEN Respond(Response("mark-paid", 404, "Invoice not found"))
     ELSE
       LET invoice == invoices[id]
           payment == Payment(user.orgId, id, amount, method, reference)
           allPayments == Append(payments, payment)
           totalPaid == TotalPaid(allPayments, id)
           remaining == invoice.totalAmount - totalPaid
       IN  /\ payments' = allPayments
           /\ invoices' = [invoices EXCEPT ![id] = MarkPaidUpdate(invoice, remaining)]
           /\ res' = [Response("mark-paid", 200, "") EXCEPT
                        !.invoiceId = id,
                        !.balanceRemaining = BalanceRemaining(remaining)]
           /\ now' = now + 1
           /\ UNCHANGED <<organizations, clients, serviceTypes, activities, invoiceItems>>

\* handleStripeInvoicePayment(invoiceId, orgId, amount)
HandleStripeInvoicePayment(invoiceId, orgId, amount) ==
  IF FindInvoice(invoiceId, orgId) = 0
  THEN UNCHANGED <<invoices, payments, now>>
  ELSE
    LET invoice == invoices[invoiceId]
        payment == Payment(orgId, invoiceId, amount, "stripe_card", NULL)
        completedPayments == Append(payments, payment)
        totalPaid == TotalPaid(completedPayments, invoiceId)
        remaining == invoice.totalAmount - totalPaid
    IN  /\ payments' = completedPayments
        /\ invoices' = [invoices EXCEPT ![invoiceId] = StripeUpdate(invoice, remaining)]
        /\ now' = now + 1

\* stripeWebhookHandler for an event of the given type whose session carries
\* metadata {invoiceId, orgId} and amount_total (in cents); invoiceId 0 stands
\* for metadata without an invoiceId
StripeWebhook(signed, type, invoiceId, orgId, amountTotal) ==
  /\ UNCHANGED <<adj, bc, inflight, organizations, clients, serviceTypes, activities,
                 invoiceItems>>
  /\ IF ~signed
     THEN /\ res' = Response("webhook", 400, "Webhook Error")
          /\ UNCHANGED <<invoices, payments, now>>
     ELSE /\ res' = Response("webhook", 200, "")
          /\ IF type = "checkout.session.completed" /\ invoiceId # 0
             THEN HandleStripeInvoicePayment(invoiceId, orgId, Cents(amountTotal))
             ELSE UNCHANGED <<invoices, payments, now>>

InvoiceStatuses == {"draft", "sent", "paid", "overdue"}

\* PATCH /api/invoices/:id; status "" stands for a missing status.  The
\* update is by id alone; for an id that does not exist it throws (500).
PatchStatus(user, id, status) ==
  /\ UNCHANGED <<adj, bc, inflight>>
  /\ IF ~requireAdmin(user)
     THEN Respond(Response("patch", 403, "Admin role required"))
     ELSE IF status = ""
     THEN Respond(Response("patch", 400, "Status is required"))
     ELSE IF status \notin InvoiceStatuses
     THEN Respond(Response("patch", 400, "Invalid status value"))
     ELSE IF id \notin 1..Len(invoices)
     THEN Respond(Response("patch", 500, "Failed to update invoice"))
     ELSE
       /\ invoices' = [invoices EXCEPT ![id].status = status]
       /\ res' = [Response("patch", 200, "") EXCEPT !.invoiceId = id]
       /\ UNCHANGED <<organizations, clients, serviceTypes, activities, invoiceItems,
                      payments, now>>

\* ------------------------------------------------------- the read routes
\* the where clause of GET /api/invoices and of GET /api/invoices/export/csv;
\* a filter of NULL stands for an absent query parameter
VisibleInvoices(user, clientId, status) ==
  { i \in 1..Len(invoices) :
      /\ invoices[i].orgId = user.orgId
      /\ clientId # NULL => invoices[i].clientId = clientId
      /\ status # NULL => invoices[i].status = status
      /\ user.role = "care_manager" =>
           clients[invoices[i].clientId].primaryCMId = user.userId }

ReadOnly == UNCHANGED <<adj, bc, inflight, organizations, clients, serviceTypes, activities,
                        invoices, invoiceItems, payments, now>>

\* GET /api/invoices
ListInvoices(user, clientId, status) ==
  /\ res' = [Response("list", 200, "") EXCEPT
               !.returned = VisibleInvoices(user, clientId, status)]
  /\ ReadOnly

\* GET /api/invoices/export/csv: one row for each invoice found
ExportCsv(user, clientId, status) ==
  /\ res' = [Response("csv", 200, "") EXCEPT
               !.returned = VisibleInvoices(user, clientId, status)]
  /\ ReadOnly

\* GET /api/invoices/:id; balance = totalAmount - totalPaid, as computed
GetInvoice(user, id) ==
  /\ ReadOnly
  /\ IF FindInvoice(id, user.orgId) = 0
     THEN res' = Response("get", 404, "Invoice not found")
     ELSE IF /\ user.role = "care_manager"
             /\ clients[invoices[id].clientId].primaryCMId # user.userId
     THEN res' = Response("get", 403, "You are not allowed to view this invoice.")
     ELSE res' = [Response("get", 200, "") EXCEPT
                    !.returned = {id},
                    !.balanceRemaining = invoices[id].totalAmount - TotalPaid(payments, id)]

\* GET /api/invoices/:id/pdf
GetInvoicePdf(user, id) ==
  /\ ReadOnly
  /\ IF FindInvoice(id, user.orgId) = 0
     THEN res' = Response("pdf", 404, "Invoice not found")
     ELSE res' = [Response("pdf", 200, "") EXCEPT !.returned = {id}]

\* ------------------------------------------- specification: the ledger
\* The ledger starts with the invoice generate has written for client c1 of
\* organization o1; approve, mark-paid, the Stripe webhook and the status PATCH
\* act on it, called by users of either organization.
MaxPayments == 2

PayAmounts == {0, Dollars(120), Dollars(200)}
PayMethods == {"", "check"}
References == {NULL, "chk-1001"}
WebhookAmounts == {0, 12000, 20000}
EventTypes == {"checkout.session.completed", "charge.refunded"}
PatchValues == InvoiceStatuses \cup {"", "void"}
\* the ids of the stored invoices, and one that is not stored
InvoiceIds == 1..(Len(invoices) + 1)
SeedPeriod == [start |-> 0, end |-> 200]

\* the rows generate writes for a client of the caller's organization
GeneratedItems(orgId, clientId, period) ==
  BuildItems(BillableActivities(orgId, clientId, period.start, period.end),
             getBillingContext(clients[clientId].billingRulesJson,
                               organizations[orgId].billingRulesJson))

GeneratedInvoice(id, orgId, clientId, period) ==
  [id |-> id, orgId |-> orgId, clientId |-> clientId,
   periodStart |-> period.start, periodEnd |-> period.end,
   status |-> "draft", totalAmount |-> TotalAmount(GeneratedItems(orgId, clientId, period)),
   currency |-> "USD", sentAt |-> NULL_TIME, paidAt |-> NULL_TIME]

Init ==
  /\ adj = AdjIdle
  /\ bc = BcIdle
  /\ inflight = NoneInFlight
  /\ organizations = [o \in OrgIds |-> [billingRulesJson |-> NoRules]]
  /\ clients = SeedClients
  /\ serviceTypes = SeedServiceTypes
  /\ activities = SeedActivities
  /\ invoices = << GeneratedInvoice(1, "o1", "c1", SeedPeriod) >>
  /\ invoiceItems = InvoiceItemRows(1, GeneratedItems("o1", "c1", SeedPeriod))
  /\ payments = <<>>
  /\ now = 1
  /\ res = NoResponse

DoApprove ==
  \E user \in Users, id \in InvoiceIds : Approve(user, id)

DoMarkPaid ==
  /\ Len(payments) < MaxPayments
  /\ \E user \in Users, id \in InvoiceIds, amount \in PayAmounts, method \in PayMethods,
        reference \in References :
        MarkPaid(user, id, amount, method, reference)

DoStripeWebhook ==
  /\ Len(payments) < MaxPayments
  /\ \E signed \in BOOLEAN, type \in EventTypes, invoiceId \in InvoiceIds \cup {0},
        orgId \in OrgIds, amountTotal \in WebhookAmounts :
        StripeWebhook(signed, type, invoiceId, orgId, amountTotal)

DoPatchStatus ==
  \E user \in Users, id \in InvoiceIds, status \in PatchValues :
     PatchStatus(user, id, status)

Next ==
  \/ DoApprove
  \/ DoMarkPaid
  \/ DoStripeWebhook
  \/ DoPatchStatus

Spec == Init /\ [][Next]_vars

\* --------------------------------------- specification: invoice lifecycle
\* From the seeded rows: generate creates the invoices, approve and mark-paid
\* act on them.
MaxLifecycleInvoices == 1

LifecyclePayments == {Dollars(120), Dollars(200)}

InitLifecycle ==
  /\ adj = AdjIdle
  /\ bc = BcIdle
  /\ inflight = NoneInFlight
  /\ InitDb

LifecycleGenerate ==
  /\ Len(invoices) < MaxLifecycleInvoices
  /\ \E user \in Users, clientId \in ClientIds : Generate(user, clientId, SeedPeriod)

LifecycleApprove ==
  \E user \in Users, id \in InvoiceIds : Approve(user, id)

LifecycleMarkPaid ==
  /\ Len(payments) < MaxPayments
  /\ \E user \in Users, id \in InvoiceIds, amount \in LifecyclePayments :
        MarkPaid(user, id, amount, "check", NULL)

NextLifecycle ==
  \/ LifecycleGenerate
  \/ LifecycleApprove
  \/ LifecycleMarkPaid

SpecLifecycle == InitLifecycle /\ [][NextLifecycle]_vars

\* ------------------------------------------- handlers, one await at a time
\* Between two awaits of a handler the handlers of other requests run.  A
\* suspended handler occupies a slot, with its position and its locals.
Suspend(slot, r) == inflight' = [inflight EXCEPT ![slot] = r]
Finish(slot) == inflight' = [inflight EXCEPT ![slot] = IdleRequest]

\* mutant: generate refuses a client and period that already have an invoice
GenerateFails_Unique(user, clientId, period) ==
  \/ ~requireAdmin(user)
  \/ clientId = NULL
  \/ clientId \notin DOMAIN clients
  \/ clients[clientId].orgId # user.orgId
  \/ BuildItems(BillableActivities(user.orgId, clientId, period.start, period.end),
                getBillingContext(clients[clientId].billingRulesJson,
                                  organizations[user.orgId].billingRulesJson)) = {}
  \/ \E i \in 1..Len(invoices) :
        /\ invoices[i].clientId = clientId
        /\ invoices[i].periodStart = period.start
        /\ invoices[i].periodEnd = period.end

\* generate up to its first write: the requests that return before it
GenerateFails(user, clientId, period) ==
  \/ ~requireAdmin(user)
  \/ clientId = NULL
  \/ clientId \notin DOMAIN clients
  \/ clients[clientId].orgId # user.orgId
  \/ BuildItems(BillableActivities(user.orgId, clientId, period.start, period.end),
                getBillingContext(clients[clientId].billingRulesJson,
                                  organizations[user.orgId].billingRulesJson)) = {}

\* generate: the reads and the loop over the activities (part_001:85-218)
GenerateRead(slot, user, clientId, period) ==
  /\ inflight[slot].pc = "idle"
  /\ IF GenerateFails(user, clientId, period)
     THEN Generate(user, clientId, period)
     ELSE LET items == GeneratedItems(user.orgId, clientId, period)
          IN  /\ Suspend(slot, [IdleRequest EXCEPT
                     !.op = "generate", !.pc = "invoice", !.orgId = user.orgId,
                     !.target = clientId, !.periodStart = period.start,
                     !.periodEnd = period.end, !.items = items,
                     !.total = TotalAmount(items)])
              /\ UNCHANGED <<adj, bc, dbvars>>

\* generate: prisma.invoice.create
GenerateCreateInvoice(slot) ==
  LET r == inflight[slot]
      id == Len(invoices) + 1
  IN  /\ r.op = "generate" /\ r.pc = "invoice"
      /\ invoices' = Append(invoices,
           [id |-> id, orgId |-> r.orgId, clientId |-> r.target,
            periodStart |-> r.periodStart, periodEnd |-> r.periodEnd,
            status |-> "draft", totalAmount |-> r.total,
            currency |-> "USD", sentAt |-> NULL_TIME, paidAt |-> NULL_TIME])
      /\ Suspend(slot, [r EXCEPT !.pc = "items", !.invoiceId = id])
      /\ UNCHANGED <<adj, bc, organizations, clients, serviceTypes, activities,
                     invoiceItems, payments, now, res>>

\* generate: one prisma.invoiceItem.create of the Promise.all.  The create
\* violates InvoiceItem_activityId_fkey when the activity is gone; the first
\* rejection sends the 500, the other creates of the Promise.all still run.
\* When all have settled without a rejection the handler answers 201.
GenerateSettleItem(slot, it, rejected) ==
  LET r == inflight[slot]
      left == r.items \ {it}
      failed == r.failed \/ rejected
  IN  /\ r.op = "generate" /\ r.pc = "items"
      /\ it \in r.items
      /\ invoiceItems' = IF rejected THEN invoiceItems
                         ELSE invoiceItems \cup InvoiceItemRows(r.invoiceId, {it})
      /\ res' = IF rejected /\ ~r.failed
                THEN Response("generate", 500, "Failed to generate invoice")
                ELSE IF left = {} /\ ~failed
                THEN [Response("generate", 201, "") EXCEPT !.invoiceId = r.invoiceId]
                ELSE res
      /\ IF left = {} THEN Finish(slot)
         ELSE Suspend(slot, [r EXCEPT !.items = left, !.failed = failed])
      /\ UNCHANGED <<adj, bc, organizations, clients, serviceTypes, activities,
                     invoices, payments, now>>

GenerateCreateItem(slot, it) ==
  GenerateSettleItem(slot, it, ~ \E a \in activities : a.id = it.activityId)

\* generate: a prisma.invoiceItem.create that the database rejects
GenerateCreateItemFails(slot, it) == GenerateSettleItem(slot, it, TRUE)

\* generate: prisma.invoice.create rejected; the catch answers 500
GenerateCreateInvoiceFails(slot) ==
  /\ inflight[slot].op = "generate" /\ inflight[slot].pc = "invoice"
  /\ Respond(Response("generate", 500, "Failed to generate invoice"))
  /\ Finish(slot)
  /\ UNCHANGED <<adj, bc>>

\* mark-paid: the checks and prisma.invoice.findFirst with its payments
MarkPaidRead(slot, user, id, amount, method, reference) ==
  /\ inflight[slot].pc = "idle"
  /\ IF \/ ~requireAdmin(user)
        \/ amount <= 0
        \/ method = ""
        \/ FindInvoice(id, user.orgId) = 0
     THEN MarkPaid(user, id, amount, method, reference)
     ELSE /\ Suspend(slot, [IdleRequest EXCEPT
                 !.op = "mark-paid", !.pc = "payment", !.orgId = user.orgId,
                 !.invoiceId = id, !.amount = amount, !.method = method,
                 !.reference = reference, !.total = invoices[id].totalAmount,
                 !.status = invoices[id].status, !.paidAt = invoices[id].paidAt,
                 !.paidBefore = TotalPaid(payments, id)])
          /\ UNCHANGED <<adj, bc, dbvars>>

\* mark-paid: prisma.payment.create
MarkPaidCreatePayment(slot) ==
  LET r == inflight[slot]
  IN  /\ r.op = "mark-paid" /\ r.pc = "payment"
      /\ payments' = Append(payments,
                            Payment(r.orgId, r.invoiceId, r.amount, r.method, r.reference))
      /\ Suspend(slot, [r EXCEPT !.pc = "update"])
      /\ UNCHANGED <<adj, bc, organizations, clients, serviceTypes, activities,
                     invoices, invoiceItems, now, res>>

\* mark-paid: prisma.invoice.update with the status and paidAt computed from
\* the invoice and the payments read at the start, and the response
MarkPaidUpdateInvoice(slot) ==
  LET r == inflight[slot]
      remaining == r.total - (r.paidBefore + r.amount)
      data == MarkPaidUpdate([status |-> r.status, paidAt |-> r.paidAt], remaining)
  IN  /\ r.op = "mark-paid" /\ r.pc = "update"
      /\ invoices' = [invoices EXCEPT ![r.invoiceId].status = data.status,
                                      ![r.invoiceId].paidAt = data.paidAt]
      /\ res' = [Response("mark-paid", 200, "") EXCEPT
                   !.invoiceId = r.invoiceId,
                   !.balanceRemaining = BalanceRemaining(remaining)]
      /\ now' = now + 1
      /\ Finish(slot)
      /\ UNCHANGED <<adj, bc, organizations, clients, serviceTypes, activities,
                     invoiceItems, payments>>

\* mark-paid: a write (payment.create or invoice.update) that the database
\* rejects; the catch answers 500
MarkPaidWriteFails(slot) ==
  /\ inflight[slot].op = "mark-paid" /\ inflight[slot].pc \in {"payment", "update"}
  /\ Respond(Response("mark-paid", 500, "Failed to mark invoice as paid"))
  /\ Finish(slot)
  /\ UNCHANGED <<adj, bc>>

\* DELETE /api/activities/:id: prisma.activity.findFirst and the role check
DeleteActivityFind(slot, user, id) ==
  LET found == { a \in activities : a.id = id /\ a.orgId = user.orgId }
  IN  /\ inflight[slot].pc = "idle"
      /\ UNCHANGED <<adj, bc>>
      /\ IF found = {}
         THEN Respond(Response("delete", 404, "Activity not found")) /\ UNCHANGED inflight
         ELSE IF user.role = "care_manager" /\ \A a \in found : a.cmId # user.userId
         THEN /\ Respond(Response("delete", 403, "You are not allowed to delete this activity."))
              /\ UNCHANGED inflight
         ELSE /\ Suspend(slot, [IdleRequest EXCEPT
                     !.op = "delete", !.pc = "check", !.orgId = user.orgId, !.target = id])
              /\ UNCHANGED dbvars

\* DELETE: prisma.invoiceItem.findFirst({ where: { activityId } })
DeleteActivityCheck(slot) ==
  LET r == inflight[slot]
  IN  /\ r.op = "delete" /\ r.pc = "check"
      /\ UNCHANGED <<adj, bc>>
      /\ IF \E it \in invoiceItems : it.activityId = r.target
         THEN /\ Respond(Response("delete", 400,
                "This activity has already been invoiced. Adjust the invoice instead of deleting the activity."))
              /\ Finish(slot)
         ELSE /\ Suspend(slot, [r EXCEPT !.pc = "delete"])
              /\ UNCHANGED dbvars

\* DELETE: prisma.activity.delete; InvoiceItem_activityId_fkey is ON DELETE
\* SET NULL, and the delete of a row that is gone throws (500)
DeleteActivityRemove(slot) ==
  LET r == inflight[slot]
  IN  /\ r.op = "delete" /\ r.pc = "delete"
      /\ UNCHANGED <<adj, bc>>
      /\ Finish(slot)
      /\ IF ~ \E a \in activities : a.id = r.target
         THEN Respond(Response("delete", 500, "Failed to delete activity"))
         ELSE /\ activities' = { a \in activities : a.id # r.target }
              /\ invoiceItems' =
                   { IF it.activityId = r.target THEN [it EXCEPT !.activityId = NULL] ELSE it :
                       it \in invoiceItems }
              /\ res' = Response("delete", 200, "")
              /\ UNCHANGED <<organizations, clients, serviceTypes, invoices, payments, now>>

\* ------------------------------ specification: deleting while invoicing
\* Two activities of client c1, one logged by another care manager; generate
\* and DELETE requests interleave at their awaits.
MaxRaceInvoices == 1

ActivityIds == {"a1", "a2"}

InitRace ==
  /\ adj = AdjIdle
  /\ bc = BcIdle
  /\ inflight = NoneInFlight
  /\ organizations = [o \in OrgIds |-> [billingRulesJson |-> NoRules]]
  /\ clients = SeedClients
  /\ serviceTypes = SeedServiceTypes
  /\ activities = { Activity("a1", "o1", "c1", 0, 160, 80, NULL),
                    [Activity("a2", "o1", "c1", 0, 100, 50, NULL) EXCEPT !.cmId = "u5"] }
  /\ invoices = <<>>
  /\ invoiceItems = {}
  /\ payments = <<>>
  /\ now = 1
  /\ res = NoResponse

\* the invoices stored and those a suspended generate is about to create
InvoicesStarted ==
  Len(invoices) +
  Cardinality({ s \in Slots : inflight[s].op = "generate" /\ inflight[s].pc = "invoice" })

RaceGenerateRead ==
  /\ InvoicesStarted < MaxRaceInvoices
  /\ \E slot \in Slots, user \in Users, clientId \in ClientIds :
        GenerateRead(slot, user, clientId, SeedPeriod)

RaceGenerateCreateInvoice == \E slot \in Slots : GenerateCreateInvoice(slot)

RaceGenerateCreateItem ==
  \E slot \in Slots : \E it \in inflight[slot].items : GenerateCreateItem(slot, it)

RaceDeleteFind ==
  \E slot \in Slots, user \in Users, id \in ActivityIds : DeleteActivityFind(slot, user, id)

RaceDeleteCheck == \E slot \in Slots : DeleteActivityCheck(slot)

RaceDeleteRemove == \E slot \in Slots : DeleteActivityRemove(slot)

NextRace ==
  \/ RaceGenerateRead
  \/ RaceGenerateCreateInvoice
  \/ RaceGenerateCreateItem
  \/ RaceDeleteFind
  \/ RaceDeleteCheck
  \/ RaceDeleteRemove

SpecRace == InitRace /\ [][NextRace]_vars

\* ------------------------------------- specification: writes that fail
\* One request at a time; any write of generate and of mark-paid can be
\* rejected by the database (a lost connection, a timeout).
InitFailure == InitRace

NoneSuspended == inflight = NoneInFlight

FailureGenerateRead ==
  /\ NoneSuspended
  /\ Len(invoices) < MaxRaceInvoices
  /\ \E slot \in Slots, user \in Users, clientId \in ClientIds :
        GenerateRead(slot, user, clientId, SeedPeriod)

FailureGenerateCreateInvoice == \E slot \in Slots : GenerateCreateInvoice(slot)

FailureGenerateCreateInvoiceFails == \E slot \in Slots : GenerateCreateInvoiceFails(slot)

FailureGenerateCreateItem ==
  \E slot \in Slots : \E it \in inflight[slot].items : GenerateCreateItem(slot, it)

FailureGenerateCreateItemFails ==
  \E slot \in Slots : \E it \in inflight[slot].items : GenerateCreateItemFails(slot, it)

FailureMarkPaidRead ==
  /\ NoneSuspended
  /\ Len(payments) < MaxPayments
  /\ \E slot \in Slots, user \in Users, id \in InvoiceIds, amount \in PayAmounts :
        MarkPaidRead(slot, user, id, amount, "check", NULL)

FailureMarkPaidCreatePayment == \E slot \in Slots : MarkPaidCreatePayment(slot)

FailureMarkPaidUpdateInvoice == \E slot \in Slots : MarkPaidUpdateInvoice(slot)

FailureMarkPaidWriteFails == \E slot \in Slots : MarkPaidWriteFails(slot)

NextFailure ==
  \/ FailureGenerateRead
  \/ FailureGenerateCreateInvoice
  \/ FailureGenerateCreateInvoiceFails
  \/ FailureGenerateCreateItem
  \/ FailureGenerateCreateItemFails
  \/ FailureMarkPaidRead
  \/ FailureMarkPaidCreatePayment
  \/ FailureMarkPaidUpdateInvoice
  \/ FailureMarkPaidWriteFails

SpecFailure == InitFailure /\ [][NextFailure]_vars

\* ------------------------------- specification: generating twice
\* generate requests for the seeded clients and one period, interleaved at
\* their awaits or one after the other.
MaxDuplicateInvoices == 2

DuplicateGenerateRead ==
  /\ InvoicesStarted < MaxDuplicateInvoices
  /\ \E slot \in Slots, user \in Users, clientId \in ClientIds :
        GenerateRead(slot, user, clientId, SeedPeriod)

DuplicateGenerateCreateInvoice == \E slot \in Slots : GenerateCreateInvoice(slot)

DuplicateGenerateCreateItem ==
  \E slot \in Slots : \E it \in inflight[slot].items : GenerateCreateItem(slot, it)

NextDuplicate ==
  \/ DuplicateGenerateRead
  \/ DuplicateGenerateCreateInvoice
  \/ DuplicateGenerateCreateItem

SpecDuplicate == InitRace /\ [][NextDuplicate]_vars

\* --------------------------------------- specification: who reaches what
\* One invoice in each organization; the client of o1 is assigned to the
\* calling care manager u2 or to another one.  Every invoice route is called
\* by every user.
MaxAccessInvoices == 3
MaxAccessPayments == 1

PrimaryCMs == {"u2", "u5"}
StatusFilters == {NULL, "draft", "paid"}
ClientFilters == {NULL, "c1"}
AccessPatchValues == {"overdue", "void"}

InitAccess ==
  /\ adj = AdjIdle
  /\ bc = BcIdle
  /\ inflight = NoneInFlight
  /\ organizations = [o \in OrgIds |-> [billingRulesJson |-> NoRules]]
  /\ \E cm \in PrimaryCMs : clients = [SeedClients EXCEPT !["c1"].primaryCMId = cm]
  /\ serviceTypes = SeedServiceTypes
  /\ activities = SeedActivities
  /\ invoices = << GeneratedInvoice(1, "o1", "c1", SeedPeriod),
                   GeneratedInvoice(2, "o2", "c2", SeedPeriod) >>
  /\ invoiceItems = InvoiceItemRows(1, GeneratedItems("o1", "c1", SeedPeriod)) \cup
                    InvoiceItemRows(2, GeneratedItems("o2", "c2", SeedPeriod))
  /\ payments = <<>>
  /\ now = 1
  /\ res = NoResponse

AccessList ==
  \E user \in Users, clientId \in ClientFilters, status \in StatusFilters :
     ListInvoices(user, clientId, status)

AccessCsv ==
  \E user \in Users, clientId \in ClientFilters, status \in StatusFilters :
     ExportCsv(user, clientId, status)

AccessGet == \E user \in Users, id \in InvoiceIds : GetInvoice(user, id)

AccessPdf == \E user \in Users, id \in InvoiceIds : GetInvoicePdf(user, id)

AccessGenerate ==
  /\ Len(invoices) < MaxAccessInvoices
  /\ \E user \in Users, clientId \in ClientIds : Generate(user, clientId, SeedPeriod)

AccessApprove == \E user \in Users, id \in InvoiceIds : Approve(user, id)

AccessMarkPaid ==
  /\ Len(payments) < MaxAccessPayments
  /\ \E user \in Users, id \in InvoiceIds :
        MarkPaid(user, id, Dollars(200), "check", NULL)

AccessPatchStatus ==
  \E user \in Users, id \in InvoiceIds, status \in AccessPatchValues :
     PatchStatus(user, id, status)

NextAccess ==
  \/ AccessList
  \/ AccessCsv
  \/ AccessGet
  \/ AccessPdf
  \/ AccessGenerate
  \/ AccessApprove
  \/ AccessMarkPaid
  \/ AccessPatchStatus

SpecAccess == InitAccess /\ [][NextAccess]_vars

\* ------------------------------------------ service types and activities
\* an entry of the services payload; id NULL is an entry without id, name ""
\* an entry without name
SyncEntry(id, name, rateType, rateAmount) ==
  [id |-> id, name |-> name, rateType |-> rateType, rateAmount |-> rateAmount]

\* !name || !rateType || rateAmount == null makes the entry's operation null
EntryKept(e) == e.name # "" /\ e.rateType # ""

\* rateType === "flat" ? "flat" : "hourly"
NormalizedRateType(rateType) == IF rateType = "flat" THEN "flat" ELSE "hourly"

\* the ids prisma gives to created service types and activities, in order
NewSvcIds == << "sNew1", "sNew2", "sNew3", "sNew4" >>
NewActivityIds == << "aNew1", "aNew2", "aNew3", "aNew4" >>

\* the ids added to incomingIds
IncomingIds(services) == { e.id : e \in { x \in services : EntryKept(x) /\ x.id # NULL } }

RECURSIVE CreateServiceTypes(_, _, _)
\* the prisma.serviceType.create operations of the entries without id
CreateServiceTypes(st, orgId, entries) ==
  IF entries = {} THEN st
  ELSE LET e == CHOOSE x \in entries : TRUE
           id == NewSvcIds[Cardinality(DOMAIN st \cap { NewSvcIds[k] : k \in DOMAIN NewSvcIds }) + 1]
           row == [orgId |-> orgId, name |-> e.name,
                   rateType |-> NormalizedRateType(e.rateType),
                   rateAmount |-> e.rateAmount, isActive |-> TRUE]
           next == [s \in DOMAIN st \cup {id} |-> IF s = id THEN row ELSE st[s]]
       IN  CreateServiceTypes(next, orgId, entries \ {e})

\* mutant: the service types missing from the payload are deleted
SyncTransaction_HardDelete(st, orgId, services) ==
  LET keep == { s \in DOMAIN st : st[s].orgId # orgId \/ s \in IncomingIds(services) }
  IN  [s \in keep |-> st[s]]

\* prisma.$transaction([...filteredOps, ...deleteOps]): the updates by id
\* (where: { id }, whatever the row's organization), the creates, then
\* isActive = false for the caller's rows whose id is not in incomingIds
SyncTransaction(st, orgId, services) ==
  LET kept == { e \in services : EntryKept(e) }
      Entry(s) == CHOOSE e \in kept : e.id = s
      updated == [s \in DOMAIN st |->
                    IF s \in IncomingIds(services)
                    THEN [st[s] EXCEPT !.name = Entry(s).name,
                                       !.rateType = NormalizedRateType(Entry(s).rateType),
                                       !.rateAmount = Entry(s).rateAmount,
                                       !.isActive = TRUE]
                    ELSE IF st[s].orgId = orgId
                    THEN [st[s] EXCEPT !.isActive = FALSE]
                    ELSE st[s]]
  IN  CreateServiceTypes(updated, orgId, { e \in kept : e.id = NULL })

\* findMany({ where: { orgId, isActive: true } })
ActiveServiceTypes(st, orgId) ==
  { s \in DOMAIN st : st[s].orgId = orgId /\ st[s].isActive }

\* GET /api/service-types
ListServiceTypes(user) ==
  /\ res' = [Response("list-services", 200, "") EXCEPT
               !.returned = ActiveServiceTypes(serviceTypes, user.orgId)]
  /\ ReadOnly

\* a request body without a services array
EmptyBody == [notes |-> ""]

\* POST /api/service-types/bulk-sync.  An update of an id that has no row
\* makes the transaction throw, and nothing is written.
BulkSync(user, body) ==
  /\ UNCHANGED <<adj, bc, inflight>>
  /\ IF ~requireAdmin(user)
     THEN Respond(Response("bulk-sync", 403, "Admin role required"))
     ELSE IF "services" \notin DOMAIN body
     THEN Respond(Response("bulk-sync", 400, "Invalid services payload."))
     ELSE IF ~(IncomingIds(body.services) \subseteq DOMAIN serviceTypes)
     THEN Respond(Response("bulk-sync", 500, "Failed to save service types."))
     ELSE
       /\ serviceTypes' = SyncTransaction(serviceTypes, user.orgId, body.services)
       /\ res' = [Response("bulk-sync", 200, "") EXCEPT
                    !.returned = ActiveServiceTypes(serviceTypes', user.orgId)]
       /\ UNCHANGED <<organizations, clients, activities, invoices, invoiceItems,
                      payments, now>>

\* mutant: the service type is looked up by id and organization only
ValidServiceType_AnyState(st, orgId, serviceTypeId) ==
  /\ serviceTypeId \in DOMAIN st
  /\ st[serviceTypeId].orgId = orgId

\* serviceType.findFirst({ where: { id, orgId, isActive: true } }) finds a row
ValidServiceType(st, orgId, serviceTypeId) ==
  /\ serviceTypeId \in DOMAIN st
  /\ st[serviceTypeId].orgId = orgId
  /\ st[serviceTypeId].isActive

\* the body of POST /api/activities, without a duration
ActivityBody(clientId, start, end, serviceTypeId) ==
  [clientId |-> clientId, startTime |-> start, endTime |-> end,
   serviceTypeId |-> serviceTypeId]


\* POST /api/activities
CreateActivity(user, body) ==
  /\ UNCHANGED <<adj, bc, inflight>>
  /\ IF body.clientId = NULL
     THEN Respond(Response("create-activity", 400,
                           "clientId, source, startTime, endTime are required"))
     ELSE IF /\ body.serviceTypeId # NULL
             /\ ~ValidServiceType(serviceTypes, user.orgId, body.serviceTypeId)
     THEN Respond(Response("create-activity", 400, "Invalid serviceTypeId"))
     ELSE
       LET id == NewActivityIds[Cardinality({ a \in activities :
                    a.id \in { NewActivityIds[k] : k \in DOMAIN NewActivityIds } }) + 1]
           computedDuration == IF "duration" \in DOMAIN body THEN body.duration
                               ELSE MathRound(body.endTime - body.startTime, 2)
       IN  /\ activities' = activities \cup
                { [id |-> id, orgId |-> user.orgId, clientId |-> body.clientId,
                   isBillable |-> TRUE, startTime |-> body.startTime,
                   endTime |-> body.endTime, duration |-> computedDuration,
                   serviceTypeId |-> body.serviceTypeId, cmId |-> user.userId] }
           /\ res' = Response("create-activity", 201, "")
           /\ UNCHANGED <<organizations, clients, serviceTypes, invoices, invoiceItems,
                          payments, now>>

\* ------------------------------------------ specification: service types
\* Two service types of o1 and one of o2.  Admins sync lists that keep, drop,
\* add and name service types; every user lists them and logs activities.
MaxServiceTypes == 4
MaxActivities == 3

SyncEntries ==
  { SyncEntry("sFlat", "Home Visit", "flat", Dollars(50)),
    SyncEntry("sHourly", "", "hourly", Dollars(120)),
    SyncEntry("sWeekly", "Retainer", "weekly", Dollars(90)),
    SyncEntry("sGone", "Removed", "flat", Dollars(10)),
    SyncEntry(NULL, "Errands", "daily", Dollars(75)) }
SyncBodies ==
  { [services |-> p] : p \in { q \in SUBSET SyncEntries : Cardinality(q) <= 2 } }
    \cup {EmptyBody}
AttachableIds == {"sFlat", "sWeekly"}

InitServiceTypes ==
  /\ adj = AdjIdle
  /\ bc = BcIdle
  /\ inflight = NoneInFlight
  /\ organizations = [o \in OrgIds |-> [billingRulesJson |-> NoRules]]
  /\ clients = SeedClients
  /\ serviceTypes = [SeedServiceTypes EXCEPT !["sWeekly"].orgId = "o2"]
  /\ activities = SeedActivities
  /\ invoices = <<>>
  /\ invoiceItems = {}
  /\ payments = <<>>
  /\ now = 1
  /\ res = NoResponse

CreatedServiceTypes(body) ==
  IF "services" \notin DOMAIN body THEN 0
  ELSE Cardinality({ e \in body.services : EntryKept(e) /\ e.id = NULL })

ServiceTypesBulkSync ==
  \E user \in Users, body \in SyncBodies :
     /\ Cardinality(DOMAIN serviceTypes) + CreatedServiceTypes(body) <= MaxServiceTypes
     /\ BulkSync(user, body)

ServiceTypesList == \E user \in Users : ListServiceTypes(user)

ServiceTypesCreateActivity ==
  /\ Cardinality(activities) < MaxActivities
  /\ \E user \in Users, serviceTypeId \in AttachableIds :
        LET clientId == IF user.orgId = "o1" THEN "c1" ELSE "c2"
        IN  CreateActivity(user, ActivityBody(clientId, 0, 61, serviceTypeId))

NextServiceTypes ==
  \/ ServiceTypesBulkSync
  \/ ServiceTypesList
  \/ ServiceTypesCreateActivity

SpecServiceTypes == InitServiceTypes /\ [][NextServiceTypes]_vars

\* ---------------------------------------- edits around a stored invoice
\* the fields PATCH /api/activities/:id accepts
PatchableFields == {"source", "isBillable", "isFlagged", "notes"}

\* PATCH /api/activities/:id; of the fields it writes the model keeps
\* isBillable
PatchActivity(user, id, body) ==
  LET found == { a \in activities : a.id = id /\ a.orgId = user.orgId }
  IN  /\ UNCHANGED <<adj, bc, inflight>>
      /\ IF DOMAIN body \cap PatchableFields = {}
         THEN Respond(Response("patch-activity", 400,
                "No fields to update. Allowed fields: source, isBillable, isFlagged, notes."))
         ELSE IF found = {}
         THEN Respond(Response("patch-activity", 404, "Activity not found"))
         ELSE IF user.role = "care_manager" /\ \A a \in found : a.cmId # user.userId
         THEN Respond(Response("patch-activity", 403,
                               "You are not allowed to edit this activity."))
         ELSE /\ activities' =
                   { IF a \in found /\ "isBillable" \in DOMAIN body
                     THEN [a EXCEPT !.isBillable = body.isBillable] ELSE a :
                       a \in activities }
              /\ res' = Response("patch-activity", 200, "")
              /\ UNCHANGED <<organizations, clients, serviceTypes, invoices, invoiceItems,
                             payments, now>>

\* mutant: no check for invoice items, and the foreign key cascades
DeleteActivity_Cascade(user, id) ==
  /\ UNCHANGED <<adj, bc, inflight>>
  /\ activities' = { a \in activities : a.id # id }
  /\ invoiceItems' = { it \in invoiceItems : it.activityId # id }
  /\ res' = Response("delete", 200, "")
  /\ UNCHANGED <<organizations, clients, serviceTypes, invoices, payments, now>>

\* DELETE /api/activities/:id, the whole handler
DeleteActivity(user, id) ==
  LET found == { a \in activities : a.id = id /\ a.orgId = user.orgId }
  IN  /\ UNCHANGED <<adj, bc, inflight>>
      /\ IF found = {}
         THEN Respond(Response("delete", 404, "Activity not found"))
         ELSE IF user.role = "care_manager" /\ \A a \in found : a.cmId # user.userId
         THEN Respond(Response("delete", 403, "You are not allowed to delete this activity."))
         ELSE IF \E it \in invoiceItems : it.activityId = id
         THEN Respond(Response("delete", 400,
                "This activity has already been invoiced. Adjust the invoice instead of deleting the activity."))
         ELSE /\ activities' = { a \in activities : a.id # id }
              /\ invoiceItems' =
                   { IF it.activityId = id THEN [it EXCEPT !.activityId = NULL] ELSE it :
                       it \in invoiceItems }
              /\ res' = Response("delete", 200, "")
              /\ UNCHANGED <<organizations, clients, serviceTypes, invoices, payments, now>>

\* POST /api/billing/rules; a body without rules is answered 400
SaveBillingRules(user, body) ==
  /\ UNCHANGED <<adj, bc, inflight>>
  /\ IF ~requireAdmin(user)
     THEN Respond(Response("save-rules", 403, "Admin role required"))
     ELSE IF "rules" \notin DOMAIN body
     THEN Respond(Response("save-rules", 400, "Invalid rules JSON."))
     ELSE /\ organizations' =
               [organizations EXCEPT ![user.orgId].billingRulesJson = body.rules]
          /\ res' = Response("save-rules", 200, "")
          /\ UNCHANGED <<clients, serviceTypes, activities, invoices, invoiceItems,
                         payments, now>>

\* --------------------------------- specification: after the invoice is made
\* Generate has written an invoice for two activities of c1, one with a flat
\* service type; a third activity lies after the period.  Payments, status
\* changes, activity edits and deletions, new billing rules and service type
\* lists follow in any order.
MaxFramePayments == 1

FrameActivityIds == {"a1", "a3"}

FrameRules ==
  { [hourlyRate |-> JsNum(Dollars(90)), minDuration |-> JsNum(10), rounding |-> "6m"] }
FrameActivityBodies == { [isBillable |-> FALSE], [notes |-> ""], << >> }
FrameSyncBodies ==
  { [services |-> {SyncEntry("sFlat", "Home Visit", "flat", Dollars(80))}],
    [services |-> {}] }
FrameUsers == { u \in Users : u.orgId = "o1" }

InitFrame ==
  /\ adj = AdjIdle
  /\ bc = BcIdle
  /\ inflight = NoneInFlight
  /\ organizations = [o \in OrgIds |-> [billingRulesJson |-> NoRules]]
  /\ clients = SeedClients
  /\ serviceTypes = SeedServiceTypes
  /\ activities = { Activity("a1", "o1", "c1", 0, 160, 80, "sFlat"),
                    Activity("a2", "o1", "c1", 0, 100, 50, NULL),
                    Activity("a3", "o1", "c1", 300, 360, 30, NULL) }
  /\ invoices = << GeneratedInvoice(1, "o1", "c1", SeedPeriod) >>
  /\ invoiceItems = InvoiceItemRows(1, GeneratedItems("o1", "c1", SeedPeriod))
  /\ payments = <<>>
  /\ now = 1
  /\ res = NoResponse

FrameApprove == \E user \in FrameUsers, id \in InvoiceIds : Approve(user, id)

FrameMarkPaid ==
  /\ Len(payments) < MaxFramePayments
  /\ \E user \in FrameUsers, id \in InvoiceIds : MarkPaid(user, id, Dollars(120), "check", NULL)

FrameStripeWebhook ==
  /\ Len(payments) < MaxFramePayments
  /\ \E id \in InvoiceIds :
        StripeWebhook(TRUE, "checkout.session.completed", id, "o1", 12000)

FramePatchStatus ==
  \E user \in FrameUsers, id \in InvoiceIds : PatchStatus(user, id, "overdue")

FramePatchActivity ==
  \E user \in FrameUsers, id \in FrameActivityIds, body \in FrameActivityBodies :
     PatchActivity(user, id, body)

FrameDeleteActivity ==
  \E user \in FrameUsers, id \in FrameActivityIds : DeleteActivity(user, id)

FrameSaveBillingRules ==
  \E user \in FrameUsers, body \in { [rules |-> r] : r \in FrameRules } :
     SaveBillingRules(user, body)

FrameBulkSync ==
  \E user \in FrameUsers, body \in FrameSyncBodies : BulkSync(user, body)

NextFrame ==
  \/ FrameApprove
  \/ FrameMarkPaid
  \/ FrameStripeWebhook
  \/ FramePatchStatus
  \/ FramePatchActivity
  \/ FrameDeleteActivity
  \/ FrameSaveBillingRules
  \/ FrameBulkSync

SpecFrame == InitFrame /\ [][NextFrame]_vars

\* ------------------------------------------- the webhook, await by await
\* handleStripeInvoicePayment: prisma.invoice.findFirst with its payments,
\* for a signed checkout.session.completed event with an invoiceId
StripeRead(slot, invoiceId, orgId, amountTotal) ==
  /\ inflight[slot].pc = "idle"
  /\ IF FindInvoice(invoiceId, orgId) = 0
     THEN StripeWebhook(TRUE, "checkout.session.completed", invoiceId, orgId, amountTotal)
     ELSE /\ Suspend(slot, [IdleRequest EXCEPT
                 !.op = "webhook", !.pc = "payment", !.orgId = orgId,
                 !.invoiceId = invoiceId, !.amount = Cents(amountTotal),
                 !.method = "stripe_card", !.total = invoices[invoiceId].totalAmount,
                 !.status = invoices[invoiceId].status,
                 !.paidAt = invoices[invoiceId].paidAt,
                 !.paidBefore = TotalPaid(payments, invoiceId)])
          /\ UNCHANGED <<adj, bc, dbvars>>

\* handleStripeInvoicePayment: prisma.payment.create
StripeCreatePayment(slot) ==
  LET r == inflight[slot]
  IN  /\ r.op = "webhook" /\ r.pc = "payment"
      /\ payments' = Append(payments,
                            Payment(r.orgId, r.invoiceId, r.amount, r.method, NULL))
      /\ Suspend(slot, [r EXCEPT !.pc = "update"])
      /\ UNCHANGED <<adj, bc, organizations, clients, serviceTypes, activities,
                     invoices, invoiceItems, now, res>>

\* handleStripeInvoicePayment: prisma.invoice.update with the status and
\* paidAt computed from the invoice and the payments read at the start
StripeUpdateInvoice(slot) ==
  LET r == inflight[slot]
      remaining == r.total - (r.paidBefore + r.amount)
      data == StripeUpdate([status |-> r.status, paidAt |-> r.paidAt], remaining)
  IN  /\ r.op = "webhook" /\ r.pc = "update"
      /\ invoices' = [invoices EXCEPT ![r.invoiceId].status = data.status,
                                      ![r.invoiceId].paidAt = data.paidAt]
      /\ res' = Response("webhook", 200, "")
      /\ now' = now + 1
      /\ Finish(slot)
      /\ UNCHANGED <<adj, bc, organizations, clients, serviceTypes, activities,
                     invoiceItems, payments>>

\* ------------------------------------ specification: payments that overlap
\* The draft invoice of 200.00; mark-paid requests and webhook events for it
\* interleave at their awaits.
MaxRacePayments == 2

RaceAmounts == {Dollars(120), Dollars(200)}
RaceWebhookAmounts == {12000}

PaymentsStarted ==
  Len(payments) +
  Cardinality({ s \in Slots : inflight[s].op \in {"mark-paid", "webhook"}
                               /\ inflight[s].pc = "payment" })

PayRaceMarkPaidRead ==
  /\ PaymentsStarted < MaxRacePayments
  /\ \E slot \in Slots, user \in Users, id \in InvoiceIds, amount \in RaceAmounts :
        MarkPaidRead(slot, user, id, amount, "check", NULL)

PayRaceMarkPaidCreatePayment == \E slot \in Slots : MarkPaidCreatePayment(slot)

PayRaceMarkPaidUpdateInvoice == \E slot \in Slots : MarkPaidUpdateInvoice(slot)

PayRaceStripeRead ==
  /\ PaymentsStarted < MaxRacePayments
  /\ \E slot \in Slots, id \in InvoiceIds, amountTotal \in RaceWebhookAmounts :
        StripeRead(slot, id, "o1", amountTotal)

PayRaceStripeCreatePayment == \E slot \in Slots : StripeCreatePayment(slot)

PayRaceStripeUpdateInvoice == \E slot \in Slots : StripeUpdateInvoice(slot)

NextPayRace ==
  \/ PayRaceMarkPaidRead
  \/ PayRaceMarkPaidCreatePayment
  \/ PayRaceMarkPaidUpdateInvoice
  \/ PayRaceStripeRead
  \/ PayRaceStripeCreatePayment
  \/ PayRaceStripeUpdateInvoice

SpecPayRace == Init /\ [][NextPayRace]_vars

\* ------------------------------------- specification: invoice generation
\* The rows generate reads are drawn from bounded sets; generate is the only
\* operation.
MaxBillingInvoices == 1

BillingOrgRules ==
  { NoRules,
    [hourlyRate |-> JsNum(Dollars(150)), minDuration |-> JsUndef, rounding |-> "15m"],
    [hourlyRate |-> JsUndef, minDuration |-> JsNum(30), rounding |-> "none"],
    [hourlyRate |-> JsNum(Dollars(90)), minDuration |-> JsNum(10), rounding |-> "6m"] }
BillingClientRules ==
  { NoRules,
    [hourlyRate |-> JsNum(Dollars(175)), minDuration |-> JsUndef, rounding |-> "undef"],
    [hourlyRate |-> JsNum(0), minDuration |-> JsNum(10), rounding |-> "none"] }
\* a stored duration of 0 makes generate derive the duration from the times
Durations == {0, 5, 12, 52}
FlatRates == {0, Dollars(50), Dollars(50) + Cents(1) \div 2}
ActivityServiceTypes == SvcIds \cup {NULL}
Periods == { [start |-> 0, end |-> 200], [start |-> 0, end |-> 50] }

InitBilling ==
  /\ adj = AdjIdle
  /\ bc = BcIdle
  /\ inflight = NoneInFlight
  /\ \E o \in BillingOrgRules :
        organizations = [g \in OrgIds |->
           [billingRulesJson |-> IF g = "o1" THEN o ELSE NoRules]]
  /\ \E c \in BillingClientRules :
        clients = [SeedClients EXCEPT !["c1"].billingRulesJson = c]
  /\ \E f \in FlatRates :
        serviceTypes = [SeedServiceTypes EXCEPT !["sFlat"].rateAmount = f]
  /\ \E d1 \in Durations, s1 \in ActivityServiceTypes,
        d2 \in {0, 52}, s2 \in {NULL, "sFlat"} :
        activities = { Activity("a1", "o1", "c1", 0, 21, d1, s1),
                       Activity("a2", "o1", "c1", 100, 160, d2, s2),
                       Activity("a3", "o2", "c2", 0, 100, 50, NULL) }
  /\ invoices = <<>>
  /\ invoiceItems = {}
  /\ payments = <<>>
  /\ now = 1
  /\ res = NoResponse

GenerateBilling ==
  /\ Len(invoices) < MaxBillingInvoices
  /\ \E user \in Users, clientId \in ClientIds \cup {NULL}, period \in Periods :
        Generate(user, clientId, period)

NextBilling == GenerateBilling

SpecBilling == InitBilling /\ [][NextBilling]_vars

\* ------------------------------- specification: what generate selects
\* Activity a1 is drawn with any organization, client, billable flag, times
\* (within the periods, beyond them, end before start) and stored duration;
\* a2 is a billable activity of c1 in o1 with or without stored duration.
\* Times are in half minutes.
MaxSelectInvoices == 1

SelectTimes ==
  { [start |-> 0, end |-> 21], [start |-> 40, end |-> 250], [start |-> 60, end |-> 40] }
SelectDurations == {0, 12}
SelectOrgRules ==
  { NoRules,
    [hourlyRate |-> JsUndef, minDuration |-> JsNum(10), rounding |-> "15m"] }

InitSelect ==
  /\ adj = AdjIdle
  /\ bc = BcIdle
  /\ inflight = NoneInFlight
  /\ \E o \in SelectOrgRules :
        organizations = [g \in OrgIds |-> [billingRulesJson |-> o]]
  /\ clients = SeedClients
  /\ serviceTypes = SeedServiceTypes
  /\ \E org \in OrgIds, client \in ClientIds, billable \in BOOLEAN, t \in SelectTimes,
        d1 \in SelectDurations, d2 \in SelectDurations :
        activities =
          { [Activity("a1", org, client, t.start, t.end, d1, NULL)
               EXCEPT !.isBillable = billable],
            Activity("a2", "o1", "c1", 100, 161, d2, NULL) }
  /\ invoices = <<>>
  /\ invoiceItems = {}
  /\ payments = <<>>
  /\ now = 1
  /\ res = NoResponse

SelectGenerate ==
  /\ Len(invoices) < MaxSelectInvoices
  /\ \E user \in Users, clientId \in ClientIds, period \in Periods :
        Generate(user, clientId, period)

NextSelect == SelectGenerate

SpecSelect == InitSelect /\ [][NextSelect]_vars

\* ======================================================== adjustMinutes
\* The duration after the minimum-duration floor (step 1 of adjustMinutes).
FlooredMinutes ==
  IF adj.minDuration > 0 /\ adj.minutes < adj.minDuration THEN adj.minDuration
  ELSE adj.minutes

\* r is x rounded to the nearest multiple of step, a tie going up
NearestMultiple(r, x, step) ==
  /\ r % step = 0
  /\ 2 * x - step < 2 * r
  /\ 2 * r <= 2 * x + step

\* C3: whenever minDuration > 0, the result of adjustMinutes is >= minDuration,
\* for each rounding policy (none, 6m, 15m).
C3_ResultAtLeastMinDuration ==
  (adj.pc = "done" /\ adj.minDuration > 0) => adj.ret >= adj.minDuration

\* C4: under rounding 6m (15m) the result of adjustMinutes is a multiple of 6
\* (15), and it is the floored duration rounded half-up to that step.
C4_RoundedToStep ==
  adj.pc = "done" =>
    /\ adj.rounding = "6m" => NearestMultiple(adj.ret, FlooredMinutes, 6)
    /\ adj.rounding = "15m" => NearestMultiple(adj.ret, FlooredMinutes, 15)

C4_Witness ==
  /\ adj.pc = "done"
  /\ adj.rounding = "6m" /\ adj.minutes = 9 /\ adj.minDuration = 0 /\ adj.ret = 12

\* C5: the minimum-duration floor is applied before rounding: a duration below
\* a positive minDuration yields the rounding of minDuration itself (3 minutes,
\* minDuration 10, 15m gives 15), and with rounding none the result is
\* max(minutes, minDuration) (12 minutes, minDuration 30 gives 30).
C5_FloorBeforeRounding ==
  adj.pc = "done" =>
    /\ (adj.minDuration > 0 /\ adj.minutes < adj.minDuration) =>
         /\ adj.rounding = "none" => adj.ret = adj.minDuration
         /\ adj.rounding = "6m" => NearestMultiple(adj.ret, adj.minDuration, 6)
         /\ adj.rounding = "15m" => NearestMultiple(adj.ret, adj.minDuration, 15)
    /\ adj.rounding = "none" =>
         /\ adj.ret >= adj.minutes /\ adj.ret >= adj.minDuration
         /\ adj.ret \in {adj.minutes, adj.minDuration}
    /\ (adj.minutes = 3 /\ adj.minDuration = 10 /\ adj.rounding = "15m") => adj.ret = 15
    /\ (adj.minutes = 12 /\ adj.minDuration = 30 /\ adj.rounding = "none") => adj.ret = 30

C5_Witness ==
  /\ adj.pc = "done"
  /\ adj.minutes = 3 /\ adj.minDuration = 10 /\ adj.rounding = "15m" /\ adj.ret = 15

\* ==================================================== getBillingContext
\* C6: hourlyRate and minDuration are resolved field by field, the first
\* truthy value winning: client, else org, else 150 (hourlyRate) or 0
\* (minDuration); 0 or a non-numeric value counts as absent.
C6_FirstTruthyWins ==
  bc.pc = "done" =>
    LET c == bc.clientRules
        o == bc.orgRules
        Absent(v) == v.kind # "num" \/ v.n = 0
    IN  /\ ~Absent(c.hourlyRate) => bc.ret.hourlyRate = c.hourlyRate.n
        /\ (Absent(c.hourlyRate) /\ ~Absent(o.hourlyRate)) =>
              bc.ret.hourlyRate = o.hourlyRate.n
        /\ (Absent(c.hourlyRate) /\ Absent(o.hourlyRate)) =>
              bc.ret.hourlyRate = Dollars(150)
        /\ ~Absent(c.minDuration) => bc.ret.minDuration = c.minDuration.n
        /\ (Absent(c.minDuration) /\ ~Absent(o.minDuration)) =>
              bc.ret.minDuration = o.minDuration.n
        /\ (Absent(c.minDuration) /\ Absent(o.minDuration)) =>
              bc.ret.minDuration = 0

\* a client rate of 0 next to a client minDuration of 10: the rate falls
\* through to the org's, the minDuration does not
C6_Witness ==
  /\ bc.pc = "done"
  /\ bc.clientRules.hourlyRate = JsNum(0)
  /\ bc.clientRules.minDuration = JsNum(10)
  /\ bc.orgRules.hourlyRate = JsNum(Dollars(90))
  /\ bc.orgRules.minDuration = JsNum(30)
  /\ bc.ret.hourlyRate = Dollars(90)
  /\ bc.ret.minDuration = 10

\* C7: the resolved rounding is the client's value if it is 6m or 15m, else
\* the org's if it is 6m or 15m, else none; a client value of none never
\* suppresses an org value of 6m or 15m; the result is one of none, 6m, 15m.
C7_RoundingResolution ==
  bc.pc = "done" =>
    LET c == bc.clientRules.rounding
        o == bc.orgRules.rounding
    IN  /\ bc.ret.rounding \in {"none", "6m", "15m"}
        /\ c \in {"6m", "15m"} => bc.ret.rounding = c
        /\ (c \notin {"6m", "15m"} /\ o \in {"6m", "15m"}) => bc.ret.rounding = o
        /\ (c \notin {"6m", "15m"} /\ o \notin {"6m", "15m"}) => bc.ret.rounding = "none"

C7_Witness ==
  /\ bc.pc = "done"
  /\ bc.clientRules.rounding = "none"
  /\ bc.orgRules.rounding = "15m"
  /\ bc.ret.rounding = "15m"

\* ===================================================== invoice generation
ItemsOfInvoice(id) == { it \in invoiceItems : it.invoiceId = id }
ItemsFor(id, activityId) == { it \in ItemsOfInvoice(id) : it.activityId = activityId }
\* the billing context and the activities generate used for an invoice (the
\* rows it read do not change under SpecBilling)
InvoiceContext(inv) ==
  getBillingContext(clients[inv.clientId].billingRulesJson,
                    organizations[inv.orgId].billingRulesJson)
InvoiceActivities(inv) ==
  BillableActivities(inv.orgId, inv.clientId, inv.periodStart, inv.periodEnd)
IsWholeCents(n) == n % MoneyScale = 0

\* C2: the totalAmount of a generated invoice is the sum of its items'
\* amounts, each of which is a whole number of cents: items are rounded one
\* by one before the summation.
C2_TotalIsSumOfRoundedItems ==
  \A i \in 1..Len(invoices) :
    LET its == ItemsOfInvoice(i)
    IN  /\ its # {}
        /\ \A it \in its :
              /\ IsWholeCents(it.amount)
              /\ NearestMultiple(it.amount, Product(it.quantity, it.unitPrice), MoneyScale)
        /\ invoices[i].totalAmount = SumAmounts(its)
        /\ invoices[i].totalAmount = round2(SumAmounts(its))

\* two 52-minute activities at 175/hour: 151.67 + 151.67 = 303.34, where the
\* unrounded sum 303.333.. would round to 303.33
C2_Witness ==
  \E i \in 1..Len(invoices) :
    /\ Cardinality(ItemsOfInvoice(i)) = 2
    /\ \A it \in ItemsOfInvoice(i) :
          it.quantity = 52 /\ it.unitPrice = Dollars(175) /\ it.amount = Cents(15167)
    /\ invoices[i].totalAmount = Cents(30334)

\* C8: an activity with a flat service type yields one item with quantity 1,
\* unitPrice = rateAmount and amount = round2(rateAmount), whatever the
\* activity's duration and the context's minDuration and rounding.
C8_FlatItem ==
  \A i \in 1..Len(invoices) :
    \A a \in InvoiceActivities(invoices[i]) :
      (a.serviceTypeId # NULL /\ serviceTypes[a.serviceTypeId].rateType = "flat") =>
        LET svc == serviceTypes[a.serviceTypeId]
            its == ItemsFor(i, a.id)
        IN  /\ Cardinality(its) <= 1
            /\ svc.rateAmount >= Cents(1) => Cardinality(its) = 1
            /\ \A it \in its :
                  /\ it.quantity = QuantityOne
                  /\ it.unitPrice = svc.rateAmount
                  /\ NearestMultiple(it.amount, svc.rateAmount, MoneyScale)
                  /\ svc.rateAmount = Dollars(50) => it.amount = Dollars(50)
                  /\ svc.rateAmount = Dollars(50) + Cents(1) \div 2 => it.amount = Cents(5001)

\* a flat item of 50.005 (billed 50.01) for a 52-minute activity under a
\* 30-minute minimum
C8_Witness ==
  \E i \in 1..Len(invoices) :
    \E a \in InvoiceActivities(invoices[i]) :
      /\ a.serviceTypeId = "sFlat" /\ a.duration = 52
      /\ InvoiceContext(invoices[i]).minDuration = 30
      /\ \E it \in ItemsFor(i, a.id) : it.quantity = QuantityOne /\ it.amount = Cents(5001)

\* what generate must produce for an activity priced by the hour at `rate`
HourlyItemPresent(id, a, ctx, rate) ==
  LET q == adjustMinutes(DurationMinutes(a), ctx.minDuration, ctx.rounding)
      its == ItemsFor(id, a.id)
  IN  /\ Cardinality(its) <= 1
      /\ round2(Product(q, rate)) > 0 => Cardinality(its) = 1
      /\ \A it \in its :
            /\ it.quantity = q
            /\ it.unitPrice = rate
            /\ it.amount = round2(Product(q, rate))

\* C9: a generate request is not refused because of a service type whose
\* rateType is not flat (hourly, or unrecognized such as weekly): the activity
\* is priced by the hour at the service type's rateAmount, with the context's
\* minDuration and rounding.
C9_Step ==
  \A user \in Users, clientId \in ClientIds, period \in Periods :
    (/\ user.role = "admin"
     /\ clients[clientId].orgId = user.orgId
     /\ Generate(user, clientId, period)) =>
      LET ctx == getBillingContext(clients[clientId].billingRulesJson,
                                   organizations[user.orgId].billingRulesJson)
          acts == BillableActivities(user.orgId, clientId, period.start, period.end)
      IN  \A a \in acts :
            (a.serviceTypeId # NULL /\ serviceTypes[a.serviceTypeId].rateType # "flat") =>
              LET rate == serviceTypes[a.serviceTypeId].rateAmount
                  q == adjustMinutes(DurationMinutes(a), ctx.minDuration, ctx.rounding)
              IN  /\ round2(Product(q, rate)) > 0 => res'.code = 201
                  /\ res'.code = 201 =>
                       /\ Len(invoices') = Len(invoices) + 1
                       /\ res'.invoiceId = Len(invoices')
                       /\ LET its == { it \in invoiceItems' :
                                         it.invoiceId = res'.invoiceId /\ it.activityId = a.id }
                          IN  /\ Cardinality(its) <= 1
                              /\ round2(Product(q, rate)) > 0 => Cardinality(its) = 1
                              /\ \A it \in its :
                                    /\ it.quantity = q
                                    /\ it.unitPrice = rate
                                    /\ it.amount = round2(Product(q, rate))

C9_NonFlatPricedHourly == [][C9_Step]_vars

\* a weekly service type at 90/hour, 12 minutes raised to the 30-minute
\* minimum: quantity 0.5, amount 45.00
C9_Witness ==
  \E i \in 1..Len(invoices) :
    \E a \in InvoiceActivities(invoices[i]) :
      /\ a.serviceTypeId = "sWeekly" /\ a.duration = 12
      /\ InvoiceContext(invoices[i]).minDuration = 30
      /\ \E it \in ItemsFor(i, a.id) :
            it.quantity = 30 /\ it.unitPrice = Dollars(90) /\ it.amount = Dollars(45)

\* C10: an activity without a service type yields an item with unitPrice =
\* the resolved hourlyRate, quantity = adjustMinutes(duration, minDuration,
\* rounding)/60 and amount = round2(quantity * unitPrice); client rate 175,
\* org rounding 15m and 52 minutes give 45 minutes, 0.75 hours, 131.25.
C10_NoServiceTypeItem ==
  \A i \in 1..Len(invoices) :
    \A a \in InvoiceActivities(invoices[i]) :
      a.serviceTypeId = NULL =>
        LET ctx == InvoiceContext(invoices[i])
        IN  /\ HourlyItemPresent(i, a, ctx, ctx.hourlyRate)
            /\ (/\ clients[invoices[i].clientId].billingRulesJson.hourlyRate = JsNum(Dollars(175))
                /\ organizations[invoices[i].orgId].billingRulesJson.hourlyRate = JsNum(Dollars(150))
                /\ organizations[invoices[i].orgId].billingRulesJson.rounding = "15m"
                /\ a.duration = 52) =>
                  \E it \in ItemsFor(i, a.id) :
                    /\ it.quantity = 45
                    /\ it.unitPrice = Dollars(175)
                    /\ it.amount = Cents(13125)

C10_Witness ==
  \E i \in 1..Len(invoices) :
    \E a \in InvoiceActivities(invoices[i]) :
      /\ a.serviceTypeId = NULL /\ a.duration = 52
      /\ clients[invoices[i].clientId].billingRulesJson.hourlyRate = JsNum(Dollars(175))
      /\ organizations[invoices[i].orgId].billingRulesJson.hourlyRate = JsNum(Dollars(150))
      /\ organizations[invoices[i].orgId].billingRulesJson.rounding = "15m"
      /\ \E it \in ItemsFor(i, a.id) :
            it.quantity = 45 /\ it.unitPrice = Dollars(175) /\ it.amount = Cents(13125)

\* C11: an activity whose computed amount is <= 0 gets no invoice item:
\* every item generate has written has amount > 0, and every generated
\* invoice has totalAmount > 0.
C11_OnlyPositiveItems ==
  /\ \A it \in invoiceItems : it.amount > 0
  /\ \A i \in 1..Len(invoices) :
       /\ invoices[i].totalAmount > 0
       /\ \A a \in InvoiceActivities(invoices[i]) :
            PriceActivity(a, InvoiceContext(invoices[i])).amount <= 0 =>
              ItemsFor(i, a.id) = {}

\* an invoice whose period holds a 5-minute activity that 15m rounding brings
\* to 0 minutes, dropped, next to an activity that was billed
C11_Witness ==
  \E i \in 1..Len(invoices) :
    /\ \E a \in InvoiceActivities(invoices[i]) :
          /\ a.duration = 5
          /\ a.serviceTypeId # "sFlat"
          /\ PriceActivity(a, InvoiceContext(invoices[i])).quantity = 0
          /\ ItemsFor(i, a.id) = {}
    /\ ItemsOfInvoice(i) # {}

\* C12: when the period holds billable activities and every one of them is
\* priced at an amount <= 0, generate fails with the error "No billable
\* activities produced any invoiceable amounts with the current rules.",
\* which is not the error it returns when it finds no billable activity; in
\* both failures it creates no invoice and no invoice item.
C12_Step ==
  \A user \in Users, clientId \in ClientIds, period \in Periods :
    (/\ user.role = "admin"
     /\ clients[clientId].orgId = user.orgId
     /\ Generate(user, clientId, period)) =>
      LET ctx == getBillingContext(clients[clientId].billingRulesJson,
                                   organizations[user.orgId].billingRulesJson)
          acts == BillableActivities(user.orgId, clientId, period.start, period.end)
          nothingCreated == invoices' = invoices /\ invoiceItems' = invoiceItems
      IN  /\ acts = {} =>
               /\ res'.code = 400
               /\ res'.error = "No billable activities found for this period"
               /\ nothingCreated
          /\ (acts # {} /\ \A a \in acts : PriceActivity(a, ctx).amount <= 0) =>
               /\ res'.code = 400
               /\ res'.error =
                    "No billable activities produced any invoiceable amounts with the current rules."
               /\ res'.error # "No billable activities found for this period"
               /\ nothingCreated

C12_NoInvoiceableActivity == [][C12_Step]_vars

\* generate has answered that the activities it found produced no amount,
\* and nothing is stored
C12_Witness ==
  /\ res.op = "generate"
  /\ res.code = 400
  /\ res.error =
       "No billable activities produced any invoiceable amounts with the current rules."
  /\ \E a \in activities : a.orgId = "o1" /\ a.clientId = "c1"
  /\ invoices = <<>>
  /\ invoiceItems = {}

\* ---------------------------------------------------- claims on the ledger
\* a step that appends a payment on invoice i
PaymentRecorded(i) ==
  /\ Len(payments') = Len(payments) + 1
  /\ payments'[Len(payments')].invoiceId = i

Covered(ps, i) == TotalPaid(ps, i) >= invoices[i].totalAmount

\* C1: when a payment is recorded by mark-paid or by the Stripe webhook and
\* the invoice's completed payments, the new one included, sum to at least
\* totalAmount, the invoice's status becomes paid and paidAt becomes now only
\* if it was not set; a payment recorded on an invoice that was covered
\* already leaves the status paid and the paidAt that was set as it is.
C1_Step ==
  \A i \in 1..Len(invoices) :
     PaymentRecorded(i) =>
       /\ Covered(payments', i) =>
            /\ invoices'[i].status = "paid"
            /\ invoices'[i].paidAt = IF invoices[i].paidAt = NULL_TIME
                                     THEN now ELSE invoices[i].paidAt
       /\ Covered(payments, i) =>
            /\ invoices[i].paidAt # NULL_TIME
            /\ invoices'[i].status = "paid"
            /\ invoices'[i].paidAt = invoices[i].paidAt

C1_PaidOnceCovered == [][C1_Step]_vars

\* the first payment covered the invoice, a second one was recorded on it at a
\* later time, and the invoice is paid with the time of the first
C1_Witness ==
  /\ Len(invoices) >= 1
  /\ Len(payments) = 2
  /\ payments[1].invoiceId = 1
  /\ payments[2].invoiceId = 1
  /\ payments[1].amount >= invoices[1].totalAmount
  /\ payments[2].amount > 0
  /\ invoices[1].status = "paid"
  /\ invoices[1].paidAt = 1
  /\ now = 3

\* C13: an invoice is created by generate only, with status draft; approve by
\* an admin on an invoice of the admin's organization answers 200 and sets
\* status to sent and sentAt to now, and changes nothing else: the other
\* columns of the invoice (totalAmount and paidAt among them), the other
\* invoices, the items and the payments are as before.
C13_Step ==
  /\ \A i \in 1..Len(invoices') :
       i > Len(invoices) =>
         /\ res'.op = "generate"
         /\ invoices'[i].status = "draft"
         /\ invoices'[i].sentAt = NULL_TIME
         /\ invoices'[i].paidAt = NULL_TIME
  /\ \A user \in Users, id \in 1..Len(invoices) :
       (/\ user.role = "admin"
        /\ invoices[id].orgId = user.orgId
        /\ Approve(user, id)) =>
          /\ res'.code = 200
          /\ Len(invoices') = Len(invoices)
          /\ invoices'[id].status = "sent"
          /\ invoices'[id].sentAt = now
          /\ invoices'[id].totalAmount = invoices[id].totalAmount
          /\ invoices'[id].paidAt = invoices[id].paidAt
          /\ invoices'[id] = [invoices[id] EXCEPT !.status = invoices'[id].status,
                                                  !.sentAt = invoices'[id].sentAt]
          /\ \A j \in 1..Len(invoices) : j # id => invoices'[j] = invoices[j]
          /\ invoiceItems' = invoiceItems
          /\ payments' = payments

C13_DraftThenApprove == [][C13_Step]_vars

\* an invoice that was paid at time 1 and approved afterwards: it is sent,
\* stamped with the later time, and still carries its payment and its paidAt
C13_Witness ==
  /\ res.op = "approve"
  /\ res.code = 200
  /\ \E i \in 1..Len(invoices) :
       /\ res.invoiceId = i
       /\ invoices[i].status = "sent"
       /\ invoices[i].paidAt = 1
       /\ invoices[i].sentAt > invoices[i].paidAt
       /\ TotalPaid(payments, i) >= invoices[i].totalAmount
       /\ ItemsOfInvoice(i) # {}

\* C14: a payment that leaves a balance (remaining > 0 with the new payment
\* counted) does not change paidAt; recorded by mark-paid it leaves the
\* status as it was, recorded by the Stripe webhook it turns draft into sent
\* and leaves any other status as it was.
C14_Step ==
  \A i \in 1..Len(invoices) :
    (PaymentRecorded(i) /\ ~Covered(payments', i)) =>
      /\ invoices'[i].paidAt = invoices[i].paidAt
      /\ res'.op = "mark-paid" => invoices'[i].status = invoices[i].status
      /\ res'.op = "webhook" =>
           invoices'[i].status = IF invoices[i].status = "draft"
                                 THEN "sent" ELSE invoices[i].status

C14_PartialPayment == [][C14_Step]_vars

\* a card payment of 120 on the invoice of 200 that was never approved: the
\* invoice is sent, without sentAt and without paidAt
C14_Witness ==
  /\ res.op = "webhook"
  /\ Len(payments) = 1
  /\ payments[1].method = "stripe_card"
  /\ payments[1].amount = Dollars(120)
  /\ invoices[1].totalAmount = Dollars(200)
  /\ invoices[1].status = "sent"
  /\ invoices[1].sentAt = NULL_TIME
  /\ invoices[1].paidAt = NULL_TIME

\* C15: the balanceRemaining that mark-paid returns is max(0, totalAmount -
\* totalPaid), totalPaid being the sum of the completed payments stored for
\* the invoice, the new one included; it is never negative.
C15_BalanceRemaining ==
  (res.op = "mark-paid" /\ res.code = 200) =>
    LET i == res.invoiceId
        due == invoices[i].totalAmount - TotalPaid(payments, i)
    IN  /\ i \in 1..Len(invoices)
        /\ res.balanceRemaining >= 0
        /\ due > 0 => res.balanceRemaining = due
        /\ due <= 0 => res.balanceRemaining = 0

\* mark-paid has answered for a payment that brought the total paid above
\* the invoice's totalAmount, with balanceRemaining 0
C15_Witness ==
  /\ res.op = "mark-paid"
  /\ res.code = 200
  /\ res.invoiceId = 1
  /\ TotalPaid(payments, 1) > invoices[1].totalAmount
  /\ payments[Len(payments)].method = "check"
  /\ res.balanceRemaining = 0

\* C16: no payment with amount <= 0 or with an empty method is ever recorded,
\* through mark-paid or through the Stripe checkout-completed webhook.
C16_NoInvalidPayment ==
  \A k \in 1..Len(payments) :
    /\ payments[k].amount > 0
    /\ payments[k].method # ""

\* the step has appended exactly the payment p, completed, to the ledger
Appended(p) ==
  /\ Len(payments') = Len(payments) + 1
  /\ SubSeq(payments', 1, Len(payments)) = payments
  /\ payments'[Len(payments')] = p
  /\ p.status = "completed"

\* C17: a payment with valid input (amount > 0, a method) on an existing
\* invoice of the caller's organization is always recorded: exactly one
\* completed Payment is appended, whatever the invoice's status and balance,
\* an invoice that is already paid included.
C17_Step ==
  /\ \A user \in { u \in Users : u.role = "admin" },
        id \in 1..Len(invoices),
        amount \in { a \in PayAmounts : a > 0 },
        method \in PayMethods \ {""},
        reference \in References :
       (/\ invoices[id].orgId = user.orgId
        /\ res'.op = "mark-paid"
        /\ MarkPaid(user, id, amount, method, reference)) =>
         /\ res'.code = 200
         /\ Appended(Payment(user.orgId, id, amount, method, reference))
  /\ \A id \in 1..Len(invoices),
        amountTotal \in { a \in WebhookAmounts : a > 0 } :
       (/\ res'.op = "webhook"
        /\ StripeWebhook(TRUE, "checkout.session.completed", id, invoices[id].orgId,
                         amountTotal)) =>
         /\ res'.code = 200
         /\ Appended(Payment(invoices[id].orgId, id, Cents(amountTotal), "stripe_card", NULL))

C17_OverpaymentAccepted == [][C17_Step]_vars

\* a check of 200 paid the invoice of 200, and a card payment of 200 was
\* recorded on it afterwards
C17_Witness ==
  /\ Len(payments) = 2
  /\ payments[1].invoiceId = 1 /\ payments[1].method = "check"
  /\ payments[2].invoiceId = 1 /\ payments[2].method = "stripe_card"
  /\ payments[1].amount = invoices[1].totalAmount
  /\ TotalPaid(payments, 1) = 2 * invoices[1].totalAmount
  /\ invoices[1].paidAt = 1

\* C18: recording the same payment a second time (the same invoice, amount,
\* method and reference as a payment already stored) does not count it
\* twice: the invoice's total paid after the second call is the total paid
\* after the first.
C18_Step ==
  \A i \in 1..Len(invoices) :
    (/\ PaymentRecorded(i)
     /\ payments'[Len(payments')].reference # NULL
     /\ \E k \in 1..Len(payments) : payments[k] = payments'[Len(payments')]) =>
       TotalPaid(payments', i) = TotalPaid(payments, i)

C18_RecordedOnce == [][C18_Step]_vars

\* ------------------------------------------- claims on interleaved requests
\* C19: an activity that is linked to an invoice item is never deleted: no
\* step removes such an activity or changes the item's link, however DELETE
\* and generate requests interleave.
C19_Step ==
  \A a \in activities :
    (\E it \in invoiceItems : it.activityId = a.id) =>
      /\ a \in activities'
      /\ \A it \in invoiceItems : it.activityId = a.id => it \in invoiceItems'

C19_InvoicedActivityKept == [][C19_Step]_vars

\* no handler is suspended in the middle of its writes for invoice i
Settled(i) == \A s \in Slots : inflight[s].invoiceId # i

\* C20: the writes of a handler are atomic under failure: once generate has
\* ended, well or with an error, a stored invoice has all its items (its
\* totalAmount is the sum of the stored items' amounts, and it has items);
\* once mark-paid has ended, a stored payment that covers the invoice comes
\* with status paid and a paidAt.
C20_WritesAtomic ==
  \A i \in 1..Len(invoices) :
    Settled(i) =>
      /\ ItemsOfInvoice(i) # {}
      /\ invoices[i].totalAmount = SumAmounts(ItemsOfInvoice(i))
      /\ Covered(payments, i) =>
           invoices[i].status = "paid" /\ invoices[i].paidAt # NULL_TIME

\* the activities the items of invoice i refer to
ItemActivities(i) == { it.activityId : it \in ItemsOfInvoice(i) }

\* every stored invoice is a draft, and once its generate has ended it has
\* an item for each activity generate prices for its client and period
DraftsComplete ==
  \A i \in 1..Len(invoices) :
    /\ invoices[i].status = "draft"
    /\ Settled(i) =>
         ItemActivities(i) =
           { it.activityId :
               it \in GeneratedItems(invoices[i].orgId, invoices[i].clientId,
                                     [start |-> invoices[i].periodStart,
                                      end |-> invoices[i].periodEnd]) }

\* C21: generate has no uniqueness guard on (clientId, periodStart,
\* periodEnd): a generate request of an admin for a client of the admin's
\* organization with billable amounts is accepted whatever invoices are
\* stored or being written, each accepted request stores its own draft
\* invoice, and the items of each refer to the same activities.
C21_Step ==
  /\ \A slot \in Slots, user \in Users, clientId \in ClientIds :
       (/\ user.role = "admin"
        /\ clients[clientId].orgId = user.orgId
        /\ GeneratedItems(user.orgId, clientId, SeedPeriod) # {}
        /\ GenerateRead(slot, user, clientId, SeedPeriod)) =>
          /\ inflight'[slot].op = "generate"
          /\ inflight'[slot].pc = "invoice"
          /\ res' = res
  /\ \A slot \in Slots :
       (inflight[slot].op = "generate" /\ inflight[slot].pc = "invoice" /\
        inflight'[slot].pc = "items") =>
          /\ Len(invoices') = Len(invoices) + 1
          /\ inflight'[slot].invoiceId = Len(invoices')
          /\ SubSeq(invoices', 1, Len(invoices)) = invoices
  /\ DraftsComplete'

C21_NoUniquenessGuard == [][C21_Step]_vars

\* two invoices of the same client and period, both drafts, each with items
\* for the same two activities
C21_Witness ==
  \E i, j \in 1..Len(invoices) :
    /\ i # j
    /\ Settled(i) /\ Settled(j)
    /\ invoices[i].clientId = invoices[j].clientId
    /\ invoices[i].periodStart = invoices[j].periodStart
    /\ invoices[i].periodEnd = invoices[j].periodEnd
    /\ invoices[i].status = "draft" /\ invoices[j].status = "draft"
    /\ ItemActivities(i) = ActivityIds
    /\ ItemActivities(j) = ActivityIds

\* ------------------------------------------------ claims on access control
\* the request was refused by requireAdmin and wrote nothing
RefusedNotAdmin ==
  /\ res'.code = 403
  /\ res'.error = "Admin role required"
  /\ invoices' = invoices
  /\ invoiceItems' = invoiceItems
  /\ payments' = payments

\* C22: generate, approve and mark-paid are for admins only: called by an
\* authenticated user whose role is not admin, each answers 403 and no
\* invoice, invoice item or payment is created or changed.
C22_Step ==
  \A user \in Users :
    user.role # "admin" =>
      /\ \A clientId \in ClientIds :
           Generate(user, clientId, SeedPeriod) => RefusedNotAdmin
      /\ \A id \in InvoiceIds :
           /\ Approve(user, id) => RefusedNotAdmin
           /\ \A amount \in LifecyclePayments :
                MarkPaid(user, id, amount, "check", NULL) => RefusedNotAdmin

C22_AdminOnly == [][C22_Step]_vars

\* the care manager of o1 asked to mark the stored invoice of o1 paid and
\* was refused; the invoice is a draft without payments
C22_Witness ==
  /\ res.op = "mark-paid"
  /\ res.code = 403
  /\ Len(invoices) >= 1
  /\ invoices[1].orgId = "o1"
  /\ invoices[1].status = "draft"
  /\ payments = <<>>

\* the request was answered 404 and no invoice, item or payment changed
RefusedNotFound ==
  /\ res'.code = 404
  /\ invoices' = invoices
  /\ invoiceItems' = invoiceItems
  /\ payments' = payments

\* C23: tenant isolation.  No invoice route called by a user of one
\* organization returns or changes an invoice, client or payment of another
\* organization: get, pdf, approve, mark-paid, status PATCH on a foreign
\* invoice and generate for a foreign client are answered 404 and change
\* nothing, and the listings return invoices of the caller's organization only.
C23_Step ==
  \A user \in Users :
    /\ \A id \in 1..Len(invoices) :
         invoices[id].orgId # user.orgId =>
           /\ GetInvoice(user, id) => RefusedNotFound
           /\ GetInvoicePdf(user, id) => RefusedNotFound
           /\ requireAdmin(user) =>
                /\ Approve(user, id) => RefusedNotFound
                /\ MarkPaid(user, id, Dollars(200), "check", NULL) => RefusedNotFound
                /\ \A status \in AccessPatchValues \cap InvoiceStatuses :
                     PatchStatus(user, id, status) => RefusedNotFound
    /\ \A clientId \in ClientIds :
         (clients[clientId].orgId # user.orgId /\ requireAdmin(user)) =>
            (Generate(user, clientId, SeedPeriod) => RefusedNotFound)
    /\ \A clientId \in ClientFilters, status \in StatusFilters :
         (ListInvoices(user, clientId, status) \/ ExportCsv(user, clientId, status)) =>
            \A i \in res'.returned : invoices[i].orgId = user.orgId

C23_TenantIsolation == [][C23_Step]_vars

\* C24: a care manager reads invoices of their own clients only.  Through
\* the list, the CSV export, GET /:id and GET /:id/pdf a caller whose role is
\* care_manager obtains an invoice only if the primaryCMId of the invoice's
\* client is the caller's userId.
C24_Step ==
  \A user \in Users :
    user.role = "care_manager" =>
      ( ( \/ \E clientId \in ClientFilters, status \in StatusFilters :
               \/ ListInvoices(user, clientId, status)
               \/ ExportCsv(user, clientId, status)
          \/ \E id \in InvoiceIds : GetInvoice(user, id) \/ GetInvoicePdf(user, id) )
        => \A i \in res'.returned :
              clients[invoices[i].clientId].primaryCMId = user.userId )

C24_OwnClientsOnly == [][C24_Step]_vars

\* C25: service types are only ever soft-deleted.  No step removes a
\* service type row; a successful bulk-sync leaves inactive every service
\* type of the caller's organization whose id was not submitted; the listing
\* and the bulk-sync response return exactly the active service types of the
\* caller's organization; and an activity is never created with a service
\* type that is inactive.
C25_Step ==
  /\ DOMAIN serviceTypes \subseteq DOMAIN serviceTypes'
  /\ \A s \in DOMAIN serviceTypes : serviceTypes'[s].orgId = serviceTypes[s].orgId
  /\ \A user \in Users :
       /\ \A body \in SyncBodies :
            (res'.op = "bulk-sync" /\ res'.code = 200 /\ BulkSync(user, body)) =>
               /\ \A s \in DOMAIN serviceTypes :
                    (serviceTypes[s].orgId = user.orgId /\
                     s \notin { e.id : e \in body.services })
                       => ~serviceTypes'[s].isActive
               /\ res'.returned =
                    { s \in DOMAIN serviceTypes' :
                        serviceTypes'[s].orgId = user.orgId /\ serviceTypes'[s].isActive }
       /\ (res'.op = "list-services" /\ ListServiceTypes(user)) =>
             res'.returned =
               { s \in DOMAIN serviceTypes :
                   serviceTypes[s].orgId = user.orgId /\ serviceTypes[s].isActive }
  /\ \A a \in activities' \ activities :
       a.serviceTypeId # NULL =>
          /\ a.serviceTypeId \in DOMAIN serviceTypes
          /\ serviceTypes[a.serviceTypeId].isActive

ItemFigures(id) ==
  { [description |-> it.description, quantity |-> it.quantity,
     unitPrice |-> it.unitPrice, amount |-> it.amount] : it \in ItemsOfInvoice(id) }

\* C26: once generate has written an invoice and its items, no later
\* operation (approve, mark-paid, webhook payment, status PATCH, edit or
\* deletion of an activity, new billing rules, a service type sync) changes
\* the invoice's totalAmount or an item's quantity, unitPrice or amount, and
\* the stored totalAmount is the sum of the amounts of the stored items.
C26_Step ==
  /\ \A i \in 1..Len(invoices) :
       /\ invoices'[i].totalAmount = invoices[i].totalAmount
       /\ Cardinality(ItemsOfInvoice(i)') = Cardinality(ItemsOfInvoice(i))
       /\ ItemFigures(i)' = ItemFigures(i)
  /\ \A i \in 1..Len(invoices') :
       invoices'[i].totalAmount = SumAmounts(ItemsOfInvoice(i)')

C26_TotalFixed == [][C26_Step]_vars

\* an invoice of two items, partly paid and set overdue, after which the
\* organization's rules and the flat rate changed and an activity it bills
\* was made non-billable
C26_Witness ==
  /\ Len(invoices) >= 1
  /\ Cardinality(ItemsOfInvoice(1)) = 2
  /\ invoices[1].status = "overdue"
  /\ Len(payments) >= 1
  /\ organizations["o1"].billingRulesJson \in FrameRules
  /\ serviceTypes["sFlat"].rateAmount = Dollars(80)
  /\ \E a \in activities : a.id = "a1" /\ ~a.isBillable
  /\ ~ \E a \in activities : a.id = "a3"

\* C27: no lost update between payments.  Under any interleaving of two
\* payment recordings on the same invoice (mark-paid requests, webhook
\* events), once they have completed, an invoice whose stored completed
\* payments sum to at least totalAmount is stored with status paid and a
\* paidAt.
C27_NoLostUpdate ==
  NoneSuspended =>
    \A i \in 1..Len(invoices) :
       Covered(payments, i) =>
          invoices[i].status = "paid" /\ invoices[i].paidAt # NULL_TIME

\* the order of the lifecycle draft -> sent -> paid
StatusRank(status) ==
  IF status = "draft" THEN 0 ELSE IF status = "sent" THEN 1 ELSE 2

\* C28: under approve and the recording of payments the status only moves
\* forward along draft -> sent -> paid: no step takes an invoice from sent
\* back to draft, or from paid back to sent or draft.
C28_Step ==
  \A i \in 1..Len(invoices) :
     StatusRank(invoices'[i].status) >= StatusRank(invoices[i].status)

C28_OnlyForward == [][C28_Step]_vars

\* C29: an invoice stored with status paid has a paidAt, and an invoice
\* stored with status sent has a sentAt, after any sequence of approve,
\* mark-paid, webhook payment and status PATCH operations on a generated
\* invoice.
C29_StatusHasTimestamp ==
  \A i \in 1..Len(invoices) :
     /\ invoices[i].status = "paid" => invoices[i].paidAt # NULL_TIME
     /\ invoices[i].status = "sent" => invoices[i].sentAt # NULL_TIME

\* the duration in minutes as the specification gives it: the stored
\* duration when it is not 0, else the rounded difference of the times
StatedDuration(a) ==
  IF a.duration # 0 THEN a.duration ELSE MathRound(a.endTime - a.startTime, 2)

\* the activities the specification lets generate price
StatedSelection(user, clientId, period) ==
  { a \in activities :
      /\ a.orgId = user.orgId
      /\ a.clientId = clientId
      /\ a.isBillable
      /\ a.startTime >= period.start
      /\ a.endTime <= period.end }

\* C30: for each activity priced by generate the duration in minutes is the
\* stored duration when it is present and not 0 and otherwise the rounded
\* whole-minute difference endTime - startTime, and only billable activities
\* of the requested client and of the caller's organization that lie within
\* the period are priced.  Here: the items of the invoice written are, one
\* for each such activity whose amount is positive, the hours of that
\* duration after adjustMinutes at the context's hourly rate.
C30_Step ==
  \A user \in Users, clientId \in ClientIds, period \in Periods :
    (res'.op = "generate" /\ res'.code = 201 /\ Generate(user, clientId, period)) =>
      LET ctx == getBillingContext(clients[clientId].billingRulesJson,
                                   organizations[user.orgId].billingRulesJson)
          Quantity(a) == adjustMinutes(StatedDuration(a), ctx.minDuration, ctx.rounding)
          Amount(a) == round2(Product(Quantity(a), ctx.hourlyRate))
          items == { it \in invoiceItems' : it.invoiceId = res'.invoiceId }
      IN  /\ \A it \in items :
                \E a \in StatedSelection(user, clientId, period) :
                   /\ it.activityId = a.id
                   /\ it.quantity = Quantity(a)
                   /\ it.amount = Amount(a)
          /\ \A a \in StatedSelection(user, clientId, period) :
                Amount(a) > 0 => \E it \in items : it.activityId = a.id

C30_DurationAndSelection == [][C30_Step]_vars

\* an invoice of two items: a1 priced on its times (no stored duration), a2
\* on its stored duration
C30_Witness ==
  /\ Len(invoices) = 1
  /\ Cardinality(ItemsOfInvoice(1)) = 2
  /\ \E a \in activities : a.id = "a1" /\ a.duration = 0
  /\ \E a \in activities : a.id = "a2" /\ a.duration # 0

====
